---- MODULE Spec2Model ----
(***************************************************************************)
(* A model of the pw_kvs key-value store (key_value_store.cc, entry.h,     *)
(* key_value_store.h): the flash partition, the sector descriptors, the    *)
(* key descriptor table, Init's two passes, Put / Delete / Get, the sector *)
(* allocator and the garbage collector.                                    *)
(*                                                                         *)
(* Every public call is one action (the store is single threaded and every *)
(* call is synchronous).  A call is computed by threading a record `m`     *)
(* (the store's RAM, the flash and the fault that is injected into this    *)
(* call) through operators that follow the C++ functions line by line.     *)
(*                                                                         *)
(* Flash is modelled in cells of kMinAlignmentBytes (16) bytes: the header *)
(* of an entry is exactly one cell.  Sizes and addresses are in bytes.     *)
(***************************************************************************)
EXTENDS Integers, Sequences, FiniteSets, TLC

VARIABLES
    flash,                \* the partition: cell index -> cell
    sectors,              \* sectors_: sector index -> SectorDescriptor
    key_descriptors,      \* key_descriptors_: sequence of KeyDescriptor
    last_new_sector,      \* last_new_sector_ (a sector index, or NullSector)
    last_transaction_id,  \* last_transaction_id_
    initialized,          \* initialized_
    init_called,          \* Init() has been called on this object since power up
    partition,            \* the FlashPartition's geometry
    options,              \* Options and the capacities fixed at construction
    last,                 \* the call that was made last, and what it returned
    expect,               \* key -> the Get outcomes the calls so far allow
    hist,                 \* bookkeeping on the run: faults injected, clean writes
    encoder               \* a pw::protobuf::NestedEncoder and its buffer

vars == <<flash, sectors, key_descriptors, last_new_sector, last_transaction_id,
          initialized, init_called, partition, options, last, expect, hist,
          encoder>>

-----------------------------------------------------------------------------
(* Geometry of the partition and bounds of the model.                      *)

\* partition_.sector_count()
SectorCount == partition.sector_count

\* partition_.sector_size_bytes()
SectorSizeBytes == partition.sector_size_bytes

\* partition_.alignment_bytes()
PartitionAlignmentBytes == partition.alignment_bytes

\* The partitions the store is run on: three sectors of 64 bytes, and two
\* sectors (one for data, one in reserve) of 96 bytes.
Partitions ==
    {[sector_count |-> 3, sector_size_bytes |-> 64, alignment_bytes |-> 16],
     [sector_count |-> 2, sector_size_bytes |-> 96, alignment_bytes |-> 16]}

\* sizeof(EntryHeader), Entry::kMinAlignmentBytes
kMinAlignmentBytes == 16

\* Entry::kMaxKeyLength
kMaxKeyLength == 63

\* Entry::kDeletedValueLength
kDeletedValueLength == 65535

\* the magic occupies the first 4 bytes of the header
MagicBytes == 4

\* Writes stop being offered once this many transaction ids are consumed.
MaxTid == 6

\* Faults (write error, corrupt write, erase error, power loss) per behaviour.
MaxFaults == 1

\* A fault hits the n-th flash mutation (write or erase) of a call, n <= this.
MaxFaultAt == 3

\* Bound: the number of calls explored after the last injected fault.
MaxAfterFault == 2

NullSector == 0 - 1

NumCells == (SectorCount * SectorSizeBytes) \div kMinAlignmentBytes

CellsPerSector == SectorSizeBytes \div kMinAlignmentBytes

SectorIds == 0 .. (SectorCount - 1)

-----------------------------------------------------------------------------
(* Keys and values.  A key is named by a string; KeyBytes gives its bytes. *)

Keys == {"a", "b"}

Values == {"x", "Y"}

\* the values written in behaviours with fault injection
FaultValues == {"x"}

KeyBytes(key) ==
    CASE key = "a" -> <<97>>
      [] key = "b" -> <<98>>
      [] key = "ab" -> <<97, 98>>
      [] key = "c" -> <<99>>
      [] key = "" -> <<>>
      [] key = "long" -> [i \in 1 .. (kMaxKeyLength + 1) |-> 120]
      [] OTHER -> <<0>>

KeySize(key) == Len(KeyBytes(key))

\* internal::Hash: a 32-bit hash of the key bytes; "ab" collides with "a".
Hash(key) ==
    CASE key = "a" -> 11
      [] key = "b" -> 22
      [] key = "ab" -> 11
      [] key = "c" -> 33
      [] key = "long" -> 44
      [] OTHER -> 55

\* value.size()
ValueLength(value) ==
    CASE value = "x" -> 1
      [] value = "Y" -> 20
      [] value = "M" -> 47
      [] value = "N" -> 48
      [] value = "E" -> 65534
      [] value = "F" -> 65535
      [] value = "G" -> 65536
      [] value = "H" -> 65600
      [] OTHER -> 0

Max(a, b) == IF a >= b THEN a ELSE b

Min(a, b) == IF a <= b THEN a ELSE b

\* With(v, Body): Body of v; it names a value that Body uses several times.
\* The value is computed once, before Body.
With(v, Body(_)) == CHOOSE r \in {Body(x) : x \in {v}} : TRUE

AlignUp(value, alignment) == ((value + alignment - 1) \div alignment) * alignment

InvalidKey(key) == KeySize(key) = 0 \/ KeySize(key) > kMaxKeyLength

-----------------------------------------------------------------------------
(* Entries.  A header cell carries the header fields and the identity of   *)
(* the key and value bytes that follow it; ok says whether the checksum in *)
(* the header matches the bytes that are in flash.                         *)

ErasedCell ==
    [t |-> "erased", key |-> "", val |-> "", key_length_bytes |-> 0,
     value_size_bytes |-> 0, alignment_units |-> 0, transaction_id |-> 0,
     ok |-> FALSE]

\* Bytes that are neither erased nor begin with the magic: the body of an
\* entry, or a header whose magic was not completely written.
DataCell == [ErasedCell EXCEPT !.t = "data"]

\* The result is a uint8_t.
alignment_bytes_to_units(alignment_bytes) ==
    (((alignment_bytes + 15) \div 16) - 1) % 256

\* The private Entry constructor used by Entry::Valid and Entry::Tombstone.
\* The checksum is taken over the header, the key and the whole value; it
\* matches what is read back when the header describes as many value bytes.
NewEntry(key, value, value_size_bytes, transaction_id) ==
    [t |-> "entry", key |-> key, val |-> value,
     key_length_bytes |-> KeySize(key),
     value_size_bytes |-> value_size_bytes,
     alignment_units |->
        alignment_bytes_to_units(Max(PartitionAlignmentBytes, kMinAlignmentBytes)),
     transaction_id |-> transaction_id,
     ok |-> (IF value_size_bytes = kDeletedValueLength THEN 0
             ELSE value_size_bytes) = ValueLength(value)]

\* Entry::Valid whose value_size_bytes saturates at the largest value of the
\* field.
EntryValidSaturates(key, value, transaction_id) ==
    NewEntry(key, value, Min(ValueLength(value), kDeletedValueLength),
             transaction_id)

\* value.size() is passed for the constructor's uint16_t value_size_bytes.
EntryValid(key, value, transaction_id) ==
    NewEntry(key, value, ValueLength(value) % 65536, transaction_id)

EntryTombstone(key, transaction_id) ==
    NewEntry(key, "", kDeletedValueLength, transaction_id)

EntryDeleted(e) == e.value_size_bytes = kDeletedValueLength

EntryValueSize(e) == IF EntryDeleted(e) THEN 0 ELSE e.value_size_bytes

EntryAlignmentBytes(e) == (e.alignment_units + 1) * 16

EntryContentSize(e) == kMinAlignmentBytes + e.key_length_bytes + EntryValueSize(e)

\* Entry::size() const
EntrySize(e) == AlignUp(EntryContentSize(e), EntryAlignmentBytes(e))

\* The bytes Entry::Write(key, value) writes: header, key and value, padded
\* to alignment_bytes().
EntryWrittenContent(e) == kMinAlignmentBytes + e.key_length_bytes + ValueLength(e.val)

EntryWrittenSize(e) == AlignUp(EntryWrittenContent(e), EntryAlignmentBytes(e))

\* static Entry::size(partition, key, value)
EntrySizeFor(key, value) ==
    AlignUp(kMinAlignmentBytes + KeySize(key) + ValueLength(value),
            Max(PartitionAlignmentBytes, kMinAlignmentBytes))

CellOf(address) == address \div kMinAlignmentBytes

\* Entry::Read: NOT_FOUND on an erased header, otherwise the header is taken.
EntryRead(fl, address) ==
    IF fl[CellOf(address)].t = "erased"
    THEN [status |-> "NOT_FOUND", entry |-> ErasedCell]
    ELSE [status |-> "OK", entry |-> fl[CellOf(address)]]

\* Entry::ReadKey(partition, address, key_length, key): the first key_length
\* bytes that follow the header.
EntryReadKey(fl, address, key_length) ==
    LET stored == KeyBytes(fl[CellOf(address)].key)
    IN  IF key_length = 0 \/ key_length > kMaxKeyLength
        THEN [status |-> "DATA_LOSS", bytes |-> <<>>]
        ELSE [status |-> "OK",
              bytes |-> IF key_length <= Len(stored)
                        THEN SubSeq(stored, 1, key_length)
                        ELSE stored \o [i \in 1 .. (key_length - Len(stored)) |-> 0]]

\* Entry::VerifyChecksumInFlash and Entry::VerifyChecksum.
EntryVerifyChecksum(e) == IF e.ok THEN "OK" ELSE "DATA_LOSS"

-----------------------------------------------------------------------------
(* Sector descriptors (internal/sectors.h).                                *)

NewSectorDescriptor(sector_size_bytes) ==
    [writable_bytes |-> sector_size_bytes, valid_bytes |-> 0]

SectorEmpty(sd) == sd.writable_bytes = SectorSizeBytes

HasSpaceStrict(sd, required_space) == sd.writable_bytes > required_space

HasSpace(sd, required_space) == sd.writable_bytes >= required_space

RecoverableBytes(sd) == SectorSizeBytes - sd.valid_bytes - sd.writable_bytes

SectorBaseAddress(sector) == sector * SectorSizeBytes

SectorFromAddress(address) == address \div SectorSizeBytes

AddressInSector(sector, address) ==
    /\ address >= SectorBaseAddress(sector)
    /\ address < SectorBaseAddress(sector) + SectorSizeBytes

NextWritableAddress(secs, sector) ==
    SectorBaseAddress(sector) + SectorSizeBytes - secs[sector].writable_bytes

AddValidBytes(secs, sector, bytes) ==
    [secs EXCEPT ![sector].valid_bytes = @ + bytes]

RemoveValidBytes(secs, sector, bytes) ==
    [secs EXCEPT ![sector].valid_bytes = @ - bytes]

RemoveWritableBytes(secs, sector, bytes) ==
    [secs EXCEPT ![sector].writable_bytes = @ - bytes]

set_writable_bytes(secs, sector, bytes) ==
    [secs EXCEPT ![sector].writable_bytes = bytes]

-----------------------------------------------------------------------------
(* The flash partition, with the fault of the current call.                *)
(*                                                                         *)
(* m.fault = [at, kind, n]: the at-th flash mutation of the call (at = 0:  *)
(* none) is hit.  kind "fail": the driver returns UNAVAILABLE after n      *)
(* bytes; "corrupt": the write returns OK but the bytes in flash do not    *)
(* match the checksum; "power": power is lost after n bytes and the call   *)
(* never returns.                                                          *)

NoFault == [at |-> 0, kind |-> "none", n |-> 0]

FaultKinds == {"fail", "corrupt", "power"}

FaultBytes == {0, 2, 16, 32}

\* The cells of an entry of which only the first nbytes bytes were written.
PutEntry(fl, address, e, nbytes) ==
    LET c0 == CellOf(address)
        full == nbytes >= EntryWrittenContent(e)
        ncells == IF full THEN EntryWrittenSize(e) \div kMinAlignmentBytes
                  ELSE (nbytes + kMinAlignmentBytes - 1) \div kMinAlignmentBytes
    IN  [c \in DOMAIN fl |->
            IF c < c0 \/ c >= c0 + ncells THEN fl[c]
            ELSE IF c > c0 THEN DataCell
            ELSE IF nbytes < MagicBytes THEN DataCell
            ELSE IF full THEN e
            ELSE [e EXCEPT !.ok = FALSE]]

Halt(m) == [m EXCEPT !.halted = TRUE]

\* Entry::Write(key, value): [m, status, size], size the bytes written.
EntryWrite(m, address, e) ==
    LET m1 == [m EXCEPT !.nflash = @ + 1, !.nwrite = @ + 1]
        size == EntryWrittenSize(e)
        hit == m.fault.at = m.nflash + 1
        part == Min((m.fault.n \div kMinAlignmentBytes) * kMinAlignmentBytes,
                    size - kMinAlignmentBytes)
    IN  IF hit /\ m.fault.kind = "fail"
        THEN [m |-> [m1 EXCEPT !.flash = PutEntry(m.flash, address, e, part),
                               !.fired = TRUE],
              status |-> "UNAVAILABLE", size |-> part]
        ELSE IF hit /\ m.fault.kind = "corrupt"
        THEN [m |-> [m1 EXCEPT !.flash = PutEntry(m.flash, address,
                                                  [e EXCEPT !.ok = FALSE], size),
                               !.fired = TRUE],
              status |-> "OK", size |-> size]
        ELSE IF hit /\ m.fault.kind = "power"
        THEN [m |-> Halt([m1 EXCEPT !.flash = PutEntry(m.flash, address, e,
                                                       Min(m.fault.n, size)),
                                    !.fired = TRUE]),
              status |-> "POWER_LOSS", size |-> 0]
        ELSE [m |-> [m1 EXCEPT !.flash = PutEntry(m.flash, address, e, size)],
              status |-> "OK", size |-> size]

ErasedSector(fl, sector) ==
    [c \in DOMAIN fl |->
        IF c \div CellsPerSector = sector THEN ErasedCell ELSE fl[c]]

\* partition_.Erase(SectorBaseAddress(sector), 1): [m, status].
FlashErase(m, sector) ==
    LET m1 == [m EXCEPT !.nflash = @ + 1]
        hit == m.fault.at = m.nflash + 1
    IN  IF hit /\ m.fault.kind = "fail"
        THEN [m |-> [m1 EXCEPT !.fired = TRUE], status |-> "UNAVAILABLE"]
        ELSE IF hit /\ m.fault.kind = "power"
        THEN [m |-> Halt([m1 EXCEPT !.flash =
                            IF m.fault.n = 0 THEN m.flash
                            ELSE ErasedSector(m.flash, sector),
                                    !.fired = TRUE]),
              status |-> "POWER_LOSS"]
        ELSE [m |-> [m1 EXCEPT !.flash = ErasedSector(m.flash, sector),
                               !.nerase = @ + 1],
              status |-> "OK"]

-----------------------------------------------------------------------------
(* Key descriptors.                                                        *)

KeyDescriptor(key, transaction_id, address, state) ==
    [hash |-> Hash(key), transaction_id |-> transaction_id,
     state |-> state, addresses |-> <<address>>]

\* Entry::descriptor(key)
EntryDescriptor(e, address) ==
    KeyDescriptor(e.key, e.transaction_id, address,
                  IF EntryDeleted(e) THEN "kDeleted" ELSE "kValid")

\* A faulty UpdateDescriptor: the descriptor keeps the state it had.
UpdateDescriptorKeepsState(kd, e, address) ==
    [kd EXCEPT !.transaction_id = e.transaction_id,
               !.addresses = <<address>>]

\* Entry::UpdateDescriptor(kd)
UpdateDescriptor(kd, e, address) ==
    [kd EXCEPT !.transaction_id = e.transaction_id,
               !.addresses = <<address>>,
               !.state = IF EntryDeleted(e) THEN "kDeleted" ELSE "kValid"]

KdAddress(kd) == kd.addresses[1]

KdDeleted(kd) == kd.state = "kDeleted"

IsNewerThan(kd, other_transaction_id) == kd.transaction_id > other_transaction_id

\* FindDescriptor(hash): the index of the first descriptor with the hash, 0 if none.
FindDescriptor(kds, hash) ==
    IF \E i \in 1 .. Len(kds) : kds[i].hash = hash
    THEN CHOOSE i \in 1 .. Len(kds) :
            /\ kds[i].hash = hash
            /\ \A j \in 1 .. (i - 1) : kds[j].hash # hash
    ELSE 0

SameSectorCopy(existing, kd) ==
    \E i \in 1 .. Len(existing.addresses) :
        SectorFromAddress(existing.addresses[i]) = SectorFromAddress(KdAddress(kd))

\* A faulty AppendNewOrOverwriteStaleExistingDescriptor: a descriptor that is
\* already in the table is never replaced by a newer one.
AppendNewOrKeepExistingDescriptor(kds, kd, max_entries) ==
    IF FindDescriptor(kds, kd.hash) # 0 THEN [status |-> "OK", kds |-> kds]
    ELSE IF Len(kds) >= max_entries
    THEN [status |-> "RESOURCE_EXHAUSTED", kds |-> kds]
    ELSE [status |-> "OK", kds |-> Append(kds, kd)]

\* A faulty AppendNewOrOverwriteStaleExistingDescriptor: a copy with the
\* same transaction id is added whatever sector it lies in.
AppendNewOrAddAnyCopy(kds, kd, max_entries) ==
    LET i == FindDescriptor(kds, kd.hash)
    IN  IF i = 0
        THEN IF Len(kds) >= max_entries
             THEN [status |-> "RESOURCE_EXHAUSTED", kds |-> kds]
             ELSE [status |-> "OK", kds |-> Append(kds, kd)]
        ELSE IF IsNewerThan(kd, kds[i].transaction_id)
        THEN [status |-> "OK", kds |-> [kds EXCEPT ![i] = kd]]
        ELSE IF kds[i].transaction_id = kd.transaction_id
        THEN [status |-> "OK",
              kds |-> [kds EXCEPT ![i].addresses = Append(@, KdAddress(kd))]]
        ELSE [status |-> "OK", kds |-> kds]

AppendNewOrOverwriteStaleExistingDescriptor(kds, kd, max_entries) ==
    LET i == FindDescriptor(kds, kd.hash)
    IN  IF i = 0
        THEN IF Len(kds) >= max_entries
             THEN [status |-> "RESOURCE_EXHAUSTED", kds |-> kds]
             ELSE [status |-> "OK", kds |-> Append(kds, kd)]
        ELSE IF IsNewerThan(kd, kds[i].transaction_id)
        THEN [status |-> "OK", kds |-> [kds EXCEPT ![i] = kd]]
        ELSE IF kds[i].transaction_id = kd.transaction_id
        THEN IF kds[i].hash # kd.hash
             THEN [status |-> "DATA_LOSS", kds |-> kds]
             ELSE IF SameSectorCopy(kds[i], kd)
             THEN [status |-> "DATA_LOSS", kds |-> kds]
             ELSE [status |-> "OK",
                   kds |-> [kds EXCEPT ![i].addresses = Append(@, KdAddress(kd))]]
        ELSE [status |-> "OK", kds |-> kds]

-----------------------------------------------------------------------------
(* Appending entries.                                                      *)
(*                                                                         *)
(* Using a null SectorDescriptor* is undefined behaviour.  m.ub chooses    *)
(* between two outcomes a build produces: "crash" (the access traps, RAM   *)
(* is lost, flash is as it was) and "error" (the access reads garbage and  *)
(* the flash driver rejects the out of range write).                       *)

UbOutcomes == {"crash", "error"}

\* CreateEntry that takes the next transaction id without consuming it.
CreateEntryWithoutBump(m, key, value, state) ==
    [m |-> m,
     entry |-> IF state = "kDeleted"
               THEN EntryTombstone(key, m.tid + 1)
               ELSE EntryValid(key, value, m.tid + 1)]

\* CreateEntry: always bumps the transaction id.
CreateEntry(m, key, value, state) ==
    [m |-> [m EXCEPT !.tid = @ + 1],
     entry |-> IF state = "kDeleted"
               THEN EntryTombstone(key, m.tid + 1)
               ELSE EntryValid(key, value, m.tid + 1)]

\* AppendEntry that takes the written bytes from writable_bytes only when the
\* write succeeded.
AppendEntryKeepsWritableOnFailure(m, sector, kd, key, value, new_state) ==
    IF sector = NullSector
    THEN IF m.ub = "crash"
         THEN [m |-> Halt([m EXCEPT !.ubhit = TRUE]), status |-> "CRASH", kd |-> kd]
         ELSE [m |-> [CreateEntry(m, key, value, new_state).m EXCEPT !.ubhit = TRUE],
               status |-> "OUT_OF_RANGE", kd |-> kd]
    ELSE
    With(NextWritableAddress(m.sectors, sector), LAMBDA address :
    With(CreateEntry(m, key, value, new_state), LAMBDA c :
    With(EntryWrite(c.m, address, c.entry), LAMBDA w :
    With([w.m EXCEPT !.sectors = RemoveWritableBytes(@, sector, w.size)], LAMBDA m2 :
        IF w.status # "OK"
        THEN [m |-> w.m, status |-> w.status, kd |-> kd]
        ELSE IF m.options.verify_on_write
                /\ EntryVerifyChecksum(m2.flash[CellOf(address)]) # "OK"
        THEN [m |-> m2, status |-> "DATA_LOSS", kd |-> kd]
        ELSE [m |-> [m2 EXCEPT !.sectors = AddValidBytes(@, sector, w.size)],
              status |-> "OK",
              kd |-> UpdateDescriptor(kd, c.entry, address)]))))

\* AppendEntry that does not count the bytes of the new entry as valid.
AppendEntryWithoutValidBytes(m, sector, kd, key, value, new_state) ==
    IF sector = NullSector
    THEN IF m.ub = "crash"
         THEN [m |-> Halt([m EXCEPT !.ubhit = TRUE]), status |-> "CRASH", kd |-> kd]
         ELSE [m |-> [CreateEntry(m, key, value, new_state).m EXCEPT !.ubhit = TRUE],
               status |-> "OUT_OF_RANGE", kd |-> kd]
    ELSE
    With(NextWritableAddress(m.sectors, sector), LAMBDA address :
    With(CreateEntry(m, key, value, new_state), LAMBDA c :
    With(EntryWrite(c.m, address, c.entry), LAMBDA w :
    With([w.m EXCEPT !.sectors = RemoveWritableBytes(@, sector, w.size)], LAMBDA m2 :
        IF w.status # "OK"
        THEN [m |-> m2, status |-> w.status, kd |-> kd]
        ELSE IF m.options.verify_on_write
                /\ EntryVerifyChecksum(m2.flash[CellOf(address)]) # "OK"
        THEN [m |-> m2, status |-> "DATA_LOSS", kd |-> kd]
        ELSE [m |-> m2,
              status |-> "OK",
              kd |-> UpdateDescriptor(kd, c.entry, address)]))))

\* AppendEntry(sector, key_descriptor, key, value, new_state): [m, status, kd].
AppendEntry(m, sector, kd, key, value, new_state) ==
    IF sector = NullSector
    THEN IF m.ub = "crash"
         THEN [m |-> Halt([m EXCEPT !.ubhit = TRUE]), status |-> "CRASH", kd |-> kd]
         ELSE [m |-> [CreateEntry(m, key, value, new_state).m EXCEPT !.ubhit = TRUE],
               status |-> "OUT_OF_RANGE", kd |-> kd]
    ELSE
    With(NextWritableAddress(m.sectors, sector), LAMBDA address :
    With(CreateEntry(m, key, value, new_state), LAMBDA c :
    With(EntryWrite(c.m, address, c.entry), LAMBDA w :
    With([w.m EXCEPT !.sectors = RemoveWritableBytes(@, sector, w.size)], LAMBDA m2 :
        IF w.status # "OK"
        THEN [m |-> m2, status |-> w.status, kd |-> kd]
        ELSE IF m.options.verify_on_write
                /\ EntryVerifyChecksum(m2.flash[CellOf(address)]) # "OK"
        THEN [m |-> m2, status |-> "DATA_LOSS", kd |-> kd]
        ELSE [m |-> [m2 EXCEPT !.sectors = AddValidBytes(@, sector, w.size)],
              status |-> "OK",
              kd |-> UpdateDescriptor(kd, c.entry, address)]))))

-----------------------------------------------------------------------------
(* The sector allocator.                                                   *)

\* The sectors in the order the loop visits them: one past last_new_sector_,
\* wrapping, last_new_sector_ itself last.
RingOrder(n, lns) == [j \in 1 .. n |-> (lns + j) % n]

MinOf(S) == CHOOSE x \in S : \A y \in S : x <= y

\* FindSectorWithSpace that, for a new entry, takes an empty sector even when
\* it is the only one.
FindSectorWithSpaceTakesLastEmpty(m, size, find_mode, sectors_to_skip) ==
    LET n == IF m.lns = NullSector THEN 0 ELSE Cardinality(DOMAIN m.sectors)
        ring == RingOrder(n, m.lns)
        usable == {j \in 1 .. n : ring[j] \notin sectors_to_skip}
        tier1 == {j \in usable :
                    /\ ~SectorEmpty(m.sectors[ring[j]])
                    /\ HasSpace(m.sectors[ring[j]], size)
                    /\ \/ find_mode = "kAppendEntry"
                       \/ RecoverableBytes(m.sectors[ring[j]]) = 0}
        empties == {j \in usable : SectorEmpty(m.sectors[ring[j]])}
        first_empty_sector == IF empties = {} THEN NullSector ELSE ring[MinOf(empties)]
        at_least_two_empty_sectors ==
            find_mode = "kGarbageCollect" \/ Cardinality(empties) >= 1
        m0 == IF m.lns = NullSector /\ Cardinality(DOMAIN m.sectors) > 0
              THEN [m EXCEPT !.ubhit = TRUE] ELSE m
    IN  IF m.lns = NullSector /\ Cardinality(DOMAIN m.sectors) > 0 /\ m.ub = "crash"
        THEN [m |-> Halt(m0), status |-> "CRASH", sector |-> NullSector]
        ELSE IF tier1 # {}
        THEN [m |-> m0, status |-> "OK", sector |-> ring[MinOf(tier1)]]
        ELSE IF at_least_two_empty_sectors
        THEN [m |-> [m0 EXCEPT !.lns = first_empty_sector],
              status |-> "OK", sector |-> first_empty_sector]
        ELSE [m |-> m0, status |-> "RESOURCE_EXHAUSTED", sector |-> NullSector]

\* FindSectorWithSpace(found_sector, size, find_mode, sectors_to_skip):
\* [m, status, sector].
FindSectorWithSpace(m, size, find_mode, sectors_to_skip) ==
    LET n == IF m.lns = NullSector THEN 0 ELSE Cardinality(DOMAIN m.sectors)
        ring == RingOrder(n, m.lns)
        usable == {j \in 1 .. n : ring[j] \notin sectors_to_skip}
        tier1 == {j \in usable :
                    /\ ~SectorEmpty(m.sectors[ring[j]])
                    /\ HasSpace(m.sectors[ring[j]], size)
                    /\ \/ find_mode = "kAppendEntry"
                       \/ RecoverableBytes(m.sectors[ring[j]]) = 0}
        empties == {j \in usable : SectorEmpty(m.sectors[ring[j]])}
        first_empty_sector == IF empties = {} THEN NullSector ELSE ring[MinOf(empties)]
        at_least_two_empty_sectors ==
            find_mode = "kGarbageCollect" \/ Cardinality(empties) >= 2
        m0 == IF m.lns = NullSector /\ Cardinality(DOMAIN m.sectors) > 0
              THEN [m EXCEPT !.ubhit = TRUE] ELSE m
    IN  IF m.lns = NullSector /\ Cardinality(DOMAIN m.sectors) > 0 /\ m.ub = "crash"
        THEN [m |-> Halt(m0), status |-> "CRASH", sector |-> NullSector]
        ELSE IF tier1 # {}
        THEN [m |-> m0, status |-> "OK", sector |-> ring[MinOf(tier1)]]
        ELSE IF at_least_two_empty_sectors
        THEN [m |-> [m0 EXCEPT !.lns = first_empty_sector],
              status |-> "OK", sector |-> first_empty_sector]
        ELSE [m |-> m0, status |-> "RESOURCE_EXHAUSTED", sector |-> NullSector]

-----------------------------------------------------------------------------
(* Garbage collection.                                                     *)

SectorsOf(addresses) ==
    {SectorFromAddress(addresses[i]) : i \in 1 .. Len(addresses)}

RECURSIVE RemoveValidFromAll(_, _, _)
RemoveValidFromAll(secs, old_sectors, bytes) ==
    IF old_sectors = {} THEN secs
    ELSE LET s == MinOf(old_sectors)
         IN  RemoveValidFromAll(RemoveValidBytes(secs, s, bytes),
                                old_sectors \ {s}, bytes)

\* A faulty RelocateEntry: the copy is written as a valid entry, whatever the
\* state of the descriptor.
RelocateEntryAsValid(m, i, address) ==
    With(m.kds[i], LAMBDA kd :
    With(EntryRead(m.flash, KdAddress(kd)).entry, LAMBDA entry :
    With(SectorsOf(kd.addresses), LAMBDA old_sectors :
    With(FindSectorWithSpace(m, EntrySize(entry), "kGarbageCollect", old_sectors),
         LAMBDA f :
        IF f.status # "OK" THEN [m |-> f.m, status |-> f.status]
        ELSE
    With(AppendEntry(f.m, f.sector, kd, entry.key, entry.val, "kValid"), LAMBDA a :
        IF a.status # "OK" THEN [m |-> a.m, status |-> a.status]
        ELSE [m |-> [a.m EXCEPT
                        !.kds[i] = a.kd,
                        !.sectors = RemoveValidFromAll(@, old_sectors, EntrySize(entry)),
                        !.nreloc = @ + 1],
              status |-> "OK"])))))

\* A faulty RelocateEntry: the descriptor keeps the address of the old copy.
RelocateEntryKeepsAddress(m, i, address) ==
    With(m.kds[i], LAMBDA kd :
    With(EntryRead(m.flash, KdAddress(kd)).entry, LAMBDA entry :
    With(SectorsOf(kd.addresses), LAMBDA old_sectors :
    With(FindSectorWithSpace(m, EntrySize(entry), "kGarbageCollect", old_sectors),
         LAMBDA f :
        IF f.status # "OK" THEN [m |-> f.m, status |-> f.status]
        ELSE
    With(AppendEntry(f.m, f.sector, kd, entry.key, entry.val, kd.state), LAMBDA a :
        IF a.status # "OK" THEN [m |-> a.m, status |-> a.status]
        ELSE [m |-> [a.m EXCEPT
                        !.sectors = RemoveValidFromAll(@, old_sectors, EntrySize(entry)),
                        !.nreloc = @ + 1],
              status |-> "OK"])))))

\* RelocateEntry(key_descriptor, address): [m, status]; i indexes the descriptor.
RelocateEntry(m, i, address) ==
    With(m.kds[i], LAMBDA kd :
    With(EntryRead(m.flash, KdAddress(kd)), LAMBDA r :
    With(r.entry, LAMBDA entry :
    With(EntryReadKey(m.flash, KdAddress(kd), entry.key_length_bytes), LAMBDA k :
    With(SectorsOf(kd.addresses), LAMBDA old_sectors :
        IF r.status # "OK" THEN [m |-> m, status |-> r.status]
        ELSE IF k.status # "OK" THEN [m |-> m, status |-> k.status]
        ELSE IF EntryValueSize(entry) > m.options.working_buffer_bytes - kMaxKeyLength
        THEN [m |-> m, status |-> "INTERNAL"]
        ELSE IF EntryVerifyChecksum(entry) # "OK"
        THEN [m |-> m, status |-> "DATA_LOSS"]
        ELSE
    With(FindSectorWithSpace(m, EntrySize(entry), "kGarbageCollect", old_sectors),
         LAMBDA f :
        IF f.status # "OK" THEN [m |-> f.m, status |-> f.status]
        ELSE
    With(AppendEntry(f.m, f.sector, kd, entry.key, entry.val, kd.state), LAMBDA a :
        IF a.status # "OK" THEN [m |-> a.m, status |-> a.status]
        ELSE [m |-> [a.m EXCEPT
                        !.kds[i] = a.kd,
                        !.sectors = RemoveValidFromAll(@, old_sectors, EntrySize(entry)),
                        !.nreloc = @ + 1],
              status |-> "OK"])))))))

\* The loop of GarbageCollectSector over key_descriptors_, from index i on.
RECURSIVE RelocateFrom(_, _, _)
RelocateFrom(m, sector_to_gc, i) ==
    IF i > Len(m.kds) THEN [m |-> m, status |-> "OK"]
    ELSE IF AddressInSector(sector_to_gc, KdAddress(m.kds[i]))
    THEN With(RelocateEntry(m, i, KdAddress(m.kds[i])), LAMBDA r :
             IF r.status # "OK" THEN r
             ELSE RelocateFrom(r.m, sector_to_gc, i + 1))
    ELSE RelocateFrom(m, sector_to_gc, i + 1)

\* GarbageCollectSector that erases the sector without moving its entries.
GarbageCollectSectorWithoutRelocation(m, sector_to_gc) ==
    With(FlashErase([m EXCEPT !.sectors = set_writable_bytes(@, sector_to_gc, 0)],
                    sector_to_gc), LAMBDA e :
        IF e.status # "OK" THEN e
        ELSE [m |-> [e.m EXCEPT !.sectors =
                        set_writable_bytes(
                            [@ EXCEPT ![sector_to_gc].valid_bytes = 0],
                            sector_to_gc, SectorSizeBytes)],
              status |-> "OK"])

\* GarbageCollectSector(sector_to_gc): [m, status].
GarbageCollectSector(m, sector_to_gc) ==
    With(IF m.sectors[sector_to_gc].valid_bytes # 0
         THEN RelocateFrom(m, sector_to_gc, 1)
         ELSE [m |-> m, status |-> "OK"], LAMBDA r :
        IF r.status # "OK" THEN r
        ELSE IF r.m.sectors[sector_to_gc].valid_bytes # 0
        THEN [m |-> r.m, status |-> "INTERNAL"]
        ELSE
    With(FlashErase([r.m EXCEPT !.sectors = set_writable_bytes(@, sector_to_gc, 0)],
                    sector_to_gc), LAMBDA e :
        IF e.status # "OK" THEN e
        ELSE [m |-> [e.m EXCEPT !.sectors =
                        set_writable_bytes(@, sector_to_gc, SectorSizeBytes)],
              status |-> "OK"]))

\* A pass of FindSectorToGarbageCollect in which a candidate that is as large
\* as the current one replaces it.
RECURSIVE GcCandidateTakesLast(_, _, _, _, _)
GcCandidateTakesLast(secs, s, only_without_valid, candidate, candidate_bytes) ==
    IF s \notin DOMAIN secs THEN candidate
    ELSE IF /\ (~only_without_valid \/ secs[s].valid_bytes = 0)
            /\ RecoverableBytes(secs[s]) >= candidate_bytes
            /\ RecoverableBytes(secs[s]) > 0
    THEN GcCandidateTakesLast(secs, s + 1, only_without_valid, s,
                              RecoverableBytes(secs[s]))
    ELSE GcCandidateTakesLast(secs, s + 1, only_without_valid, candidate,
                              candidate_bytes)

\* One pass of FindSectorToGarbageCollect over the sectors from index s on:
\* a strictly larger candidate replaces the current one.
RECURSIVE GcCandidate(_, _, _, _, _)
GcCandidate(secs, s, only_without_valid, candidate, candidate_bytes) ==
    IF s \notin DOMAIN secs THEN candidate
    ELSE IF /\ (~only_without_valid \/ secs[s].valid_bytes = 0)
            /\ RecoverableBytes(secs[s]) > candidate_bytes
    THEN GcCandidate(secs, s + 1, only_without_valid, s, RecoverableBytes(secs[s]))
    ELSE GcCandidate(secs, s + 1, only_without_valid, candidate, candidate_bytes)

\* FindSectorToGarbageCollect(): a sector, or NullSector.
FindSectorToGarbageCollect(secs) ==
    LET step1 == GcCandidate(secs, 0, TRUE, NullSector, 0)
    IN  IF step1 # NullSector THEN step1
        ELSE GcCandidate(secs, 0, FALSE, NullSector, 0)

\* GarbageCollectPartial(): [m, status].
GarbageCollectPartial(m) ==
    With(FindSectorToGarbageCollect(m.sectors), LAMBDA sector_to_gc :
        IF sector_to_gc = NullSector THEN [m |-> m, status |-> "OK"]
        ELSE GarbageCollectSector(m, sector_to_gc))

\* The loop of GarbageCollectFull, collecting every sector that is not
\* empty, with or without recoverable bytes.
RECURSIVE GcFullLoopEverySector(_, _, _)
GcFullLoopEverySector(m, sector, j) ==
    IF j >= Cardinality(DOMAIN m.sectors) THEN [m |-> m, status |-> "OK"]
    ELSE
    With((sector + 1) % Cardinality(DOMAIN m.sectors), LAMBDA next :
        IF ~SectorEmpty(m.sectors[next])
        THEN With(GarbageCollectSector(m, next), LAMBDA g :
                 IF g.status # "OK" THEN g
                 ELSE GcFullLoopEverySector(g.m, next, j + 1))
        ELSE GcFullLoopEverySector(m, next, j + 1))

\* The loop of GarbageCollectFull: j counts the iterations, sector is the
\* loop's pointer before it is advanced.
RECURSIVE GcFullLoop(_, _, _)
GcFullLoop(m, sector, j) ==
    IF j >= Cardinality(DOMAIN m.sectors) THEN [m |-> m, status |-> "OK"]
    ELSE
    With((sector + 1) % Cardinality(DOMAIN m.sectors), LAMBDA next :
        IF RecoverableBytes(m.sectors[next]) > 0
        THEN With(GarbageCollectSector(m, next), LAMBDA g :
                 IF g.status # "OK" THEN g ELSE GcFullLoop(g.m, next, j + 1))
        ELSE GcFullLoop(m, next, j + 1))

\* GarbageCollectFull(): [m, status].
GarbageCollectFull(m) ==
    IF Cardinality(DOMAIN m.sectors) = 0 THEN [m |-> m, status |-> "OK"]
    ELSE IF m.lns = NullSector
    THEN IF m.ub = "crash"
         THEN [m |-> Halt([m EXCEPT !.ubhit = TRUE]), status |-> "CRASH"]
         ELSE [m |-> [m EXCEPT !.ubhit = TRUE], status |-> "OK"]
    ELSE GcFullLoop(m, m.lns, 0)

\* FindOrRecoverSectorWithSpace that collects garbage whatever gc_on_write is.
FindOrRecoverSectorWithSpaceAlwaysCollects(m, size) ==
    With(FindSectorWithSpace(m, size, "kAppendEntry", {}), LAMBDA result :
        IF result.status = "RESOURCE_EXHAUSTED"
        THEN With(GarbageCollectPartial(result.m), LAMBDA g :
                 IF g.status # "OK"
                 THEN [m |-> [g.m EXCEPT !.gc = "failed"], status |-> g.status,
                       sector |-> NullSector]
                 ELSE FindSectorWithSpace([g.m EXCEPT !.gc = "ok"], size,
                                          "kAppendEntry", {}))
        ELSE result)

\* FindOrRecoverSectorWithSpace that looks for a sector again whatever the
\* garbage collection returned.
FindOrRecoverSectorWithSpaceIgnoresGcError(m, size) ==
    With(FindSectorWithSpace(m, size, "kAppendEntry", {}), LAMBDA result :
        IF result.status = "RESOURCE_EXHAUSTED" /\ m.options.gc_on_write # "kDisabled"
        THEN With(GarbageCollectPartial(result.m), LAMBDA g :
                 FindSectorWithSpace(
                    [g.m EXCEPT !.gc = IF g.status = "OK" THEN "ok" ELSE "failed"],
                    size, "kAppendEntry", {}))
        ELSE result)

\* FindOrRecoverSectorWithSpace(sector, size): [m, status, sector].
FindOrRecoverSectorWithSpace(m, size) ==
    With(FindSectorWithSpace(m, size, "kAppendEntry", {}), LAMBDA result :
        IF result.status = "RESOURCE_EXHAUSTED" /\ m.options.gc_on_write # "kDisabled"
        THEN With(GarbageCollectPartial(result.m), LAMBDA g :
                 IF g.status # "OK"
                 THEN [m |-> [g.m EXCEPT !.gc = "failed"], status |-> g.status,
                       sector |-> NullSector]
                 ELSE FindSectorWithSpace([g.m EXCEPT !.gc = "ok"], size,
                                          "kAppendEntry", {}))
        ELSE result)

-----------------------------------------------------------------------------
(* Looking keys up, reading.                                               *)

\* CheckOperation that looks at initialized_ before the key.
CheckOperationInitializedFirst(m, key) ==
    IF ~m.initialized THEN "FAILED_PRECONDITION"
    ELSE IF InvalidKey(key) THEN "INVALID_ARGUMENT"
    ELSE "OK"

CheckOperation(m, key) ==
    IF InvalidKey(key) THEN "INVALID_ARGUMENT"
    ELSE IF ~m.initialized THEN "FAILED_PRECONDITION"
    ELSE "OK"

\* FindKeyDescriptor(key, result): [status, index].
FindKeyDescriptor(m, key) ==
    With(FindDescriptor(m.kds, Hash(key)), LAMBDA i :
        IF i = 0 THEN [status |-> "NOT_FOUND", index |-> 0]
        ELSE
    With(EntryReadKey(m.flash, KdAddress(m.kds[i]), KeySize(key)), LAMBDA k :
        IF k.status # "OK" THEN [status |-> k.status, index |-> 0]
        ELSE IF k.bytes = KeyBytes(key) THEN [status |-> "OK", index |-> i]
        ELSE [status |-> "ALREADY_EXISTS", index |-> 0]))

\* A faulty FindExistingKeyDescriptor: a deleted descriptor counts as found.
FindExistingKeyDescriptorAlsoDeleted(m, key) ==
    With(FindKeyDescriptor(m, key), LAMBDA f :
        IF f.status = "ALREADY_EXISTS"
        THEN [status |-> "NOT_FOUND", index |-> 0]
        ELSE f)

\* FindExistingKeyDescriptor(key, result): [status, index].
FindExistingKeyDescriptor(m, key) ==
    With(FindKeyDescriptor(m, key), LAMBDA f :
        IF f.status = "ALREADY_EXISTS"
           \/ (f.status = "OK" /\ KdDeleted(m.kds[f.index]))
        THEN [status |-> "NOT_FOUND", index |-> 0]
        ELSE f)

NoValue == [status |-> "NOT_FOUND", size |-> 0, value |-> ""]

\* Get(key, descriptor, value_buffer, 0) with a buffer that holds any value.
GetFromDescriptor(m, kd) ==
    With(EntryRead(m.flash, KdAddress(kd)), LAMBDA r :
        IF r.status # "OK" THEN [NoValue EXCEPT !.status = r.status]
        ELSE IF m.options.verify_on_read /\ EntryVerifyChecksum(r.entry) # "OK"
        THEN [NoValue EXCEPT !.status = "DATA_LOSS"]
        ELSE [status |-> "OK", size |-> EntryValueSize(r.entry),
              value |-> r.entry.val])

\* Get(key, value_buffer): [status, size, value].
Get(m, key) ==
    With(CheckOperation(m, key), LAMBDA check :
        IF check # "OK" THEN [NoValue EXCEPT !.status = check]
        ELSE
    With(FindExistingKeyDescriptor(m, key), LAMBDA f :
        IF f.status # "OK" THEN [NoValue EXCEPT !.status = f.status]
        ELSE GetFromDescriptor(m, m.kds[f.index])))

\* ValueSize(key): [status, size].
ValueSize(m, key) ==
    With(CheckOperation(m, key), LAMBDA check :
        IF check # "OK" THEN [status |-> check, size |-> 0]
        ELSE
    With(FindExistingKeyDescriptor(m, key), LAMBDA f :
        IF f.status # "OK" THEN [status |-> f.status, size |-> 0]
        ELSE
    With(EntryRead(m.flash, KdAddress(m.kds[f.index])), LAMBDA r :
        IF r.status # "OK" THEN [status |-> r.status, size |-> 0]
        ELSE [status |-> "OK", size |-> EntryValueSize(r.entry)])))

\* size(): the descriptors that are not deleted.
Size(kds) == Cardinality({i \in 1 .. Len(kds) : ~KdDeleted(kds[i])})

\* begin() and iterator::operator++: the index of the first descriptor at or
\* after i that is not deleted; Len + 1 is end().
RECURSIVE SkipDeleted(_, _)
SkipDeleted(kds, i) ==
    IF i <= Len(kds) /\ KdDeleted(kds[i]) THEN SkipDeleted(kds, i + 1) ELSE i

\* The descriptor indices a loop from begin() to end() visits, from i on.
RECURSIVE IterateFrom(_, _)
IterateFrom(kds, i) ==
    IF i > Len(kds) THEN <<>>
    ELSE <<i>> \o IterateFrom(kds, SkipDeleted(kds, i + 1))

Iterate(kds) == IterateFrom(kds, SkipDeleted(kds, 1))

\* Item::ReadKey: the key an iterator yields for descriptor i.
ItemKey(m, i) == m.flash[CellOf(KdAddress(m.kds[i]))].key

-----------------------------------------------------------------------------
(* Put and Delete.                                                         *)

\* WriteEntryForExistingKey(key_descriptor, new_state, key, value): [m, status].
WriteEntryForExistingKey(m, i, new_state, key, value) ==
    With(EntryRead(m.flash, KdAddress(m.kds[i])), LAMBDA original :
        IF original.status # "OK" THEN [m |-> m, status |-> original.status]
        ELSE
    With(FindOrRecoverSectorWithSpace(m, EntrySizeFor(key, value)), LAMBDA f :
        IF f.status # "OK" THEN [m |-> f.m, status |-> f.status]
        ELSE
    With(f.m.kds[i], LAMBDA old_key_descriptor :
    With(AppendEntry(f.m, f.sector, old_key_descriptor, key, value, new_state),
         LAMBDA a :
        IF a.status # "OK"
        THEN [m |-> [a.m EXCEPT !.torn = (a.status = "POWER_LOSS")],
              status |-> a.status]
        ELSE [m |-> [a.m EXCEPT
                        !.kds[i] = a.kd,
                        !.sectors = RemoveValidFromAll(@,
                                        SectorsOf(old_key_descriptor.addresses),
                                        EntrySize(original.entry))],
              status |-> "OK"]))))

\* WriteEntryForNewKey that looks for a sector before it looks at the table.
WriteEntryForNewKeyChecksTableLast(m, key, value) ==
    With(FindOrRecoverSectorWithSpace(m, EntrySizeFor(key, value)), LAMBDA f :
        IF f.status # "OK" THEN [m |-> f.m, status |-> f.status]
        ELSE IF Len(f.m.kds) >= m.options.max_entries
        THEN [m |-> f.m, status |-> "RESOURCE_EXHAUSTED"]
        ELSE
    With(AppendEntry(f.m, f.sector,
                     [hash |-> Hash(key), transaction_id |-> 0,
                      state |-> "kValid", addresses |-> <<>>],
                     key, value, "kValid"), LAMBDA a :
        IF a.status # "OK"
        THEN [m |-> [a.m EXCEPT !.torn = (a.status = "POWER_LOSS")],
              status |-> a.status]
        ELSE [m |-> [a.m EXCEPT !.kds = Append(@, a.kd)], status |-> "OK"]))

\* WriteEntryForNewKey(key, value): [m, status].
WriteEntryForNewKey(m, key, value) ==
    IF Len(m.kds) >= m.options.max_entries
    THEN [m |-> m, status |-> "RESOURCE_EXHAUSTED"]
    ELSE
    With(FindOrRecoverSectorWithSpace(m, EntrySizeFor(key, value)), LAMBDA f :
        IF f.status # "OK" THEN [m |-> f.m, status |-> f.status]
        ELSE
    With(AppendEntry(f.m, f.sector,
                     [hash |-> Hash(key), transaction_id |-> 0,
                      state |-> "kValid", addresses |-> <<>>],
                     key, value, "kValid"), LAMBDA a :
        IF a.status # "OK"
        THEN [m |-> [a.m EXCEPT !.torn = (a.status = "POWER_LOSS")],
              status |-> a.status]
        ELSE [m |-> [a.m EXCEPT !.kds = Append(@, a.kd)], status |-> "OK"]))

\* PutBytes(key, value): [m, status].
PutBytes(m, key, value) ==
    With(CheckOperation(m, key), LAMBDA check :
        IF check # "OK" THEN [m |-> m, status |-> check]
        ELSE IF EntrySizeFor(key, value) > SectorSizeBytes
        THEN [m |-> m, status |-> "INVALID_ARGUMENT"]
        ELSE
    With(FindKeyDescriptor(m, key), LAMBDA f :
        IF f.status = "OK"
        THEN WriteEntryForExistingKey(m, f.index, "kValid", key, value)
        ELSE IF f.status = "NOT_FOUND"
        THEN WriteEntryForNewKey(m, key, value)
        ELSE [m |-> m, status |-> f.status]))

\* Delete(key): [m, status].
Delete(m, key) ==
    With(CheckOperation(m, key), LAMBDA check :
        IF check # "OK" THEN [m |-> m, status |-> check]
        ELSE
    With(FindExistingKeyDescriptor(m, key), LAMBDA f :
        IF f.status # "OK" THEN [m |-> m, status |-> f.status]
        ELSE WriteEntryForExistingKey(m, f.index, "kDeleted", key, "")))

-----------------------------------------------------------------------------
(* Init.                                                                   *)

\* A faulty LoadEntry: the checksum of the entry is not verified.
LoadEntryUnverified(fl, kds, max_entries, entry_address) ==
    With(EntryRead(fl, entry_address), LAMBDA r :
        IF r.status # "OK"
        THEN [status |-> r.status, next |-> entry_address, kds |-> kds]
        ELSE IF r.entry.t # "entry"
        THEN [status |-> "DATA_LOSS", next |-> entry_address, kds |-> kds]
        ELSE
    With(AppendNewOrOverwriteStaleExistingDescriptor(
             kds, EntryDescriptor(r.entry, entry_address), max_entries), LAMBDA a :
        [status |-> a.status,
         next |-> entry_address + EntrySize(r.entry),
         kds |-> a.kds]))

\* LoadEntry(entry_address, next_entry_address): [status, next, kds].
LoadEntry(fl, kds, max_entries, entry_address) ==
    With(EntryRead(fl, entry_address), LAMBDA r :
        IF r.status # "OK"
        THEN [status |-> r.status, next |-> entry_address, kds |-> kds]
        ELSE IF r.entry.t # "entry"
        THEN [status |-> "DATA_LOSS", next |-> entry_address, kds |-> kds]
        ELSE
    With(EntryReadKey(fl, entry_address, r.entry.key_length_bytes), LAMBDA k :
        IF k.status # "OK"
        THEN [status |-> k.status, next |-> entry_address, kds |-> kds]
        ELSE IF EntryVerifyChecksum(r.entry) # "OK"
        THEN [status |-> "DATA_LOSS", next |-> entry_address, kds |-> kds]
        ELSE
    With(AppendNewOrOverwriteStaleExistingDescriptor(
             kds, EntryDescriptor(r.entry, entry_address), max_entries), LAMBDA a :
        [status |-> a.status,
         next |-> entry_address + EntrySize(r.entry),
         kds |-> a.kds])))

\* ScanForEntry(sector, start_address, next_entry_address): [status, next].
\* The loop stops at the first aligned address from start_address on that
\* holds the magic, or at the end of the sector.
ScanForEntry(fl, sector, start_address) ==
    LET address == AlignUp(start_address, kMinAlignmentBytes)
        sector_end == SectorBaseAddress(sector) + SectorSizeBytes
        found == {c \in CellOf(address) .. (CellOf(sector_end) - 1) :
                     fl[c].t = "entry"}
    IN  IF ~AddressInSector(sector, address)
        THEN [status |-> "NOT_FOUND", next |-> address]
        ELSE IF found = {}
        THEN [status |-> "NOT_FOUND", next |-> sector_end]
        ELSE [status |-> "OK", next |-> MinOf(found) * kMinAlignmentBytes]

\* The inner loop of Init's first pass over one sector.  st = [kds,
\* entry_address, writable_bytes, sector_corrupt_bytes, corrupt_entries, status].
RECURSIVE InitScanSector(_, _, _, _)
InitScanSector(fl, max_entries, sector, st) ==
    IF ~AddressInSector(sector, st.entry_address) THEN st
    ELSE
    With(LoadEntry(fl, st.kds, max_entries, st.entry_address), LAMBDA l :
        IF l.status = "NOT_FOUND" THEN st
        ELSE IF l.status = "DATA_LOSS"
        THEN
    With(ScanForEntry(fl, sector, st.entry_address + kMinAlignmentBytes), LAMBDA sc :
             IF sc.status = "NOT_FOUND"
             THEN [st EXCEPT !.sector_corrupt_bytes =
                                @ + SectorSizeBytes
                                  - (st.entry_address - SectorBaseAddress(sector)),
                             !.corrupt_entries = @ + 1]
             ELSE InitScanSector(fl, max_entries, sector,
                      [st EXCEPT !.kds = l.kds,
                                 !.entry_address = sc.next,
                                 !.writable_bytes =
                                     SectorSizeBytes
                                     - (sc.next - SectorBaseAddress(sector)),
                                 !.sector_corrupt_bytes = @ + sc.next - st.entry_address,
                                 !.corrupt_entries = @ + 1]))
        ELSE IF l.status # "OK" THEN [st EXCEPT !.status = "UNKNOWN"]
        ELSE InitScanSector(fl, max_entries, sector,
                 [st EXCEPT !.kds = l.kds,
                            !.entry_address = l.next,
                            !.writable_bytes =
                                SectorSizeBytes - (l.next - SectorBaseAddress(sector))]))

\* Init's first pass, from sector on.  p = [kds, sectors, total_corrupt_bytes,
\* empty_sector_found, status].
RECURSIVE InitFirstPass(_, _, _, _)
InitFirstPass(fl, max_entries, sector, p) ==
    IF sector >= SectorCount THEN p
    ELSE
    With(InitScanSector(fl, max_entries, sector,
                  [kds |-> p.kds,
                   entry_address |-> SectorBaseAddress(sector),
                   writable_bytes |-> p.sectors[sector].writable_bytes,
                   sector_corrupt_bytes |-> 0,
                   corrupt_entries |-> 0,
                   status |-> "OK"]), LAMBDA st :
        IF st.status # "OK"
        THEN [p EXCEPT !.kds = st.kds,
                       !.sectors = set_writable_bytes(@, sector, st.writable_bytes),
                       !.status = st.status]
        ELSE
    With(set_writable_bytes(p.sectors, sector,
                            IF st.sector_corrupt_bytes > 0 THEN 0
                            ELSE st.writable_bytes), LAMBDA secs :
        InitFirstPass(fl, max_entries, sector + 1,
                [p EXCEPT !.kds = st.kds,
                          !.sectors = secs,
                          !.total_corrupt_bytes = @ + st.sector_corrupt_bytes,
                          !.empty_sector_found = @ \/ SectorEmpty(secs[sector])])))

\* Init's second pass, from descriptor i on.  q = [sectors,
\* last_transaction_id, newest_key, status].
RECURSIVE InitSecondPass(_, _, _, _)
InitSecondPass(fl, kds, i, q) ==
    IF i > Len(kds) THEN q
    ELSE
    With(kds[i], LAMBDA kd :
        IF \E j \in 1 .. Len(kd.addresses) : EntryRead(fl, kd.addresses[j]).status # "OK"
        THEN [q EXCEPT !.status = "NOT_FOUND"]
        ELSE
    With(EntrySize(EntryRead(fl, KdAddress(kd)).entry), LAMBDA size :
    With(IsNewerThan(kd, q.last_transaction_id), LAMBDA newer :
        InitSecondPass(fl, kds, i + 1,
                [q EXCEPT !.sectors =
                              [s \in DOMAIN @ |->
                                  [@[s] EXCEPT !.valid_bytes = @ +
                                      Cardinality({j \in 1 .. Len(kd.addresses) :
                                          SectorFromAddress(kd.addresses[j]) = s})
                                      * size]],
                          !.last_transaction_id =
                              IF newer THEN kd.transaction_id ELSE @,
                          !.newest_key = IF newer THEN i ELSE @]))))

\* Reset()
Reset(m) ==
    [m EXCEPT !.initialized = FALSE, !.kds = <<>>, !.lns = NullSector, !.tid = 0]

\* Init's checks that report both failures with the same status.
InitPreconditionsOneStatus(m) ==
    IF SectorCount > m.options.max_usable_sectors
    THEN "FAILED_PRECONDITION"
    ELSE IF m.options.working_buffer_bytes < SectorSizeBytes
    THEN "FAILED_PRECONDITION"
    ELSE "OK"

\* The checks Init makes before it reads the flash: the sector table holds
\* the partition's sectors, the working buffer holds a sector.
InitPreconditions(m) ==
    IF SectorCount > m.options.max_usable_sectors
    THEN "FAILED_PRECONDITION"
    ELSE IF m.options.working_buffer_bytes < SectorSizeBytes
    THEN "INVALID_ARGUMENT"
    ELSE "OK"

\* Init(): [m, status].
KvsInit(m0) ==
    With(Reset(m0), LAMBDA m :
        IF InitPreconditions(m) # "OK"
        THEN [m |-> m, status |-> InitPreconditions(m)]
        ELSE
    With(InitFirstPass(m.flash, m.options.max_entries, 0,
                [kds |-> <<>>,
                 sectors |-> [s \in SectorIds |-> NewSectorDescriptor(SectorSizeBytes)],
                 total_corrupt_bytes |-> 0,
                 empty_sector_found |-> FALSE,
                 status |-> "OK"]), LAMBDA p :
        IF p.status # "OK"
        THEN [m |-> [m EXCEPT !.kds = p.kds, !.sectors = p.sectors],
              status |-> "UNKNOWN"]
        ELSE
    With(InitSecondPass(m.flash, p.kds, 1,
                [sectors |-> p.sectors, last_transaction_id |-> 0,
                 newest_key |-> 0, status |-> "OK"]), LAMBDA q :
        IF q.status # "OK"
        THEN [m |-> [m EXCEPT !.kds = p.kds, !.sectors = q.sectors,
                              !.tid = q.last_transaction_id],
              status |-> q.status]
        ELSE
    With([m EXCEPT
                 !.kds = p.kds,
                 !.sectors = q.sectors,
                 !.tid = q.last_transaction_id,
                 !.lns = IF q.newest_key = 0 THEN 0
                         ELSE SectorFromAddress(
                                 p.kds[q.newest_key].addresses[
                                     Len(p.kds[q.newest_key].addresses)])], LAMBDA m2 :
    With(IF p.empty_sector_found THEN [m |-> m2, status |-> "OK"]
         ELSE With(GarbageCollectPartial(m2), LAMBDA gc_result :
                  [m |-> [gc_result.m EXCEPT
                             !.gc = IF gc_result.status = "OK" THEN "ok" ELSE "failed"],
                   status |-> gc_result.status]), LAMBDA gc :
        IF gc.status # "OK"
        THEN [m |-> gc.m, status |-> IF gc.m.halted THEN gc.status ELSE "INTERNAL"]
        ELSE [m |-> [gc.m EXCEPT !.initialized = TRUE],
              status |-> IF p.total_corrupt_bytes > 0 THEN "DATA_LOSS" ELSE "OK"])))))

-----------------------------------------------------------------------------
(* The state machine.                                                      *)

AllKeys == {"a", "b", "ab", "c"}

Absent == "<absent>"

\* Options{} defaults (key_value_store.h) and the capacities of the buffers.
DefaultOptions ==
    [gc_on_write |-> "kOneSector",
     verify_on_read |-> TRUE,
     verify_on_write |-> TRUE,
     max_entries |-> Cardinality(Keys),
     max_usable_sectors |-> 4,
     working_buffer_bytes |-> 256]

\* NestedEncoder<max_depth, max_blobs> encoder(buffer): nothing is written,
\* no message is open and the status is OK.
NewEncoder(buffer_size, max_depth, max_blobs) ==
    [buffer_size |-> buffer_size, max_depth |-> max_depth,
     max_blobs |-> max_blobs, cursor |-> 0, depth |-> 0, blob_count |-> 0,
     encode_status |-> "OK", encoded_size |-> 0]

\* The encoder of the behaviours in which only the store is called.
NoEncoder == NewEncoder(0, 0, 0)

NoCall ==
    [op |-> "none", key |-> "", value |-> "", status |-> "OK",
     nwrite |-> 0, nerase |-> 0, nreloc |-> 0, gc |-> "none",
     fired |-> FALSE, ub |-> FALSE]

\* The store as constructed (the constructor calls Reset) over an erased
\* partition, before Init(), in a behaviour in which up to budget faults are
\* injected.
Constructed(budget) ==
    /\ partition \in Partitions
    /\ flash = [c \in 0 .. (NumCells - 1) |-> ErasedCell]
    /\ sectors = <<>>
    /\ key_descriptors = <<>>
    /\ last_new_sector = NullSector
    /\ last_transaction_id = 0
    /\ initialized = FALSE
    /\ init_called = FALSE
    /\ options = DefaultOptions
    /\ last = NoCall
    /\ expect = [k \in AllKeys |-> {Absent}]
    /\ hist = [faults |-> 0, after |-> 0, budget |-> budget, clean |-> TRUE,
               torn |-> FALSE]
    /\ encoder = NoEncoder

Init == Constructed(0)

\* The store as it is, entering a call that is hit by `fault`.
Machine(fault, ub) ==
    [flash |-> flash, sectors |-> sectors, kds |-> key_descriptors,
     lns |-> last_new_sector, tid |-> last_transaction_id,
     initialized |-> initialized, options |-> options,
     fault |-> fault, ub |-> ub,
     fired |-> FALSE, halted |-> FALSE, torn |-> FALSE, ubhit |-> FALSE,
     gc |-> "none",
     nflash |-> 0, nwrite |-> 0, nerase |-> 0, nreloc |-> 0]

\* The store as it is, for the read-only calls.
Now == Machine(NoFault, "crash")

\* The faults that can hit a call which, undisturbed, ends as r0: one of its
\* flash mutations is hit, if the behaviour has a fault left.
Faults(r0) ==
    LET ats == 1 .. Min(r0.m.nflash, MaxFaultAt)
    IN  IF hist.faults >= hist.budget THEN {}
        ELSE {[at |-> at, kind |-> "fail", n |-> n] :
                at \in ats, n \in {b \in FaultBytes : b % kMinAlignmentBytes = 0
                                                       /\ b < 2 * kMinAlignmentBytes}}
             \cup {[at |-> at, kind |-> "corrupt", n |-> 0] : at \in ats}
             \cup {[at |-> at, kind |-> "power", n |-> n] : at \in ats, n \in FaultBytes}

\* The ways a call can go, given its undisturbed run r0 (in which undefined
\* behaviour, if reached, crashes): undisturbed, with each outcome of the
\* undefined behaviour it reaches, or hit by a fault.  A call hit by a fault
\* stops at the fault, before any undefined behaviour r0 reaches.
Cases(r0) ==
    {[fault |-> NoFault, ub |-> ub] :
        ub \in IF r0.m.ubhit THEN UbOutcomes ELSE {"crash"}}
    \cup {[fault |-> fault, ub |-> "crash"] : fault \in Faults(r0)}

Undisturbed == [fault |-> NoFault, ub |-> "crash"]

\* What Get returns for a key: its value, Absent, or the error status.
Outcome(m, key) ==
    With(Get(m, key), LAMBDA g :
        IF g.status = "OK" THEN g.value
        ELSE IF g.status = "NOT_FOUND" THEN Absent
        ELSE g.status)

GcCalls == {"GarbageCollectPartial", "GarbageCollectFull"}

\* The call returned r = [m, status] (or did not return: m.halted): the new
\* state.  After a power loss or a crash the object is constructed afresh.
Apply(r, op, key, value) ==
    LET m == r.m
        written == IF op = "Delete" THEN Absent ELSE value
    IN  /\ flash' = m.flash
        /\ sectors' = IF m.halted THEN <<>> ELSE m.sectors
        /\ key_descriptors' = IF m.halted THEN <<>> ELSE m.kds
        /\ last_new_sector' = IF m.halted THEN NullSector ELSE m.lns
        /\ last_transaction_id' = IF m.halted THEN 0 ELSE m.tid
        /\ initialized' = IF m.halted THEN FALSE ELSE m.initialized
        /\ init_called' = IF m.halted THEN FALSE ELSE (init_called \/ op = "Init")
        /\ options' = options
        /\ partition' = partition
        /\ last' = [op |-> op, key |-> key, value |-> value, status |-> r.status,
                    nwrite |-> m.nwrite, nerase |-> m.nerase, nreloc |-> m.nreloc,
                    gc |-> IF op \in GcCalls
                           THEN (IF r.status = "OK" THEN "ok" ELSE "failed")
                           ELSE m.gc,
                    fired |-> m.fired, ub |-> m.ubhit]
        /\ expect' =
              IF op \in {"Put", "Delete"} /\ r.status = "OK"
              THEN [expect EXCEPT ![key] = {written}]
              ELSE IF op \in {"Put", "Delete"} /\ m.torn
              THEN [expect EXCEPT ![key] = @ \cup {written}]
              ELSE expect
        /\ hist' = [faults |-> hist.faults + (IF m.fired THEN 1 ELSE 0),
                    after |-> hist.after + (IF hist.faults > 0 THEN 1 ELSE 0),
                    budget |-> hist.budget,
                    clean |-> hist.clean /\
                              ~(op \in {"Put", "Delete"} /\ (m.fired \/ m.ubhit)),
                    torn |-> hist.torn \/ m.torn]
        /\ encoder' = encoder

\* Calls are explored until MaxAfterFault calls have followed a fault.
Explored == hist.faults = 0 \/ hist.after < MaxAfterFault

DoInit ==
    /\ Explored
    /\ \E r0 \in {KvsInit(Machine(NoFault, "crash"))} :
       \E c \in Cases(r0) :
       \E r \in {IF c = Undisturbed THEN r0
                 ELSE KvsInit(Machine(c.fault, c.ub))} :
          Apply(r, "Init", "", "")

DoPut(key, value) ==
    /\ init_called
    /\ Explored
    /\ last_transaction_id < MaxTid
    /\ \E r0 \in {PutBytes(Machine(NoFault, "crash"), key, value)} :
       \E c \in Cases(r0) :
       \E r \in {IF c = Undisturbed THEN r0
                 ELSE PutBytes(Machine(c.fault, c.ub), key, value)} :
          Apply(r, "Put", key, value)

DoDelete(key) ==
    /\ init_called
    /\ Explored
    /\ last_transaction_id < MaxTid
    /\ \E r0 \in {Delete(Machine(NoFault, "crash"), key)} :
       \E c \in Cases(r0) :
       \E r \in {IF c = Undisturbed THEN r0
                 ELSE Delete(Machine(c.fault, c.ub), key)} :
          Apply(r, "Delete", key, "")

DoGarbageCollectPartial ==
    /\ init_called
    /\ Explored
    /\ last_transaction_id < MaxTid
    /\ \E r0 \in {GarbageCollectPartial(Machine(NoFault, "crash"))} :
       \E c \in Cases(r0) :
       \E r \in {IF c = Undisturbed THEN r0
                 ELSE GarbageCollectPartial(Machine(c.fault, c.ub))} :
          Apply(r, "GarbageCollectPartial", "", "")

DoGarbageCollectFull ==
    /\ init_called
    /\ Explored
    /\ last_transaction_id < MaxTid
    /\ \E r0 \in {GarbageCollectFull(Machine(NoFault, "crash"))} :
       \E c \in Cases(r0) :
       \E r \in {IF c = Undisturbed THEN r0
                 ELSE GarbageCollectFull(Machine(c.fault, c.ub))} :
          Apply(r, "GarbageCollectFull", "", "")

Next ==
    \/ DoInit
    \/ \E key \in Keys, value \in Values : DoPut(key, value)
    \/ \E key \in Keys : DoDelete(key)
    \/ DoGarbageCollectPartial
    \/ DoGarbageCollectFull

Spec == Init /\ [][Next]_vars

\* The same store under fault injection: at most MaxFaults of its flash
\* mutations fail, corrupt their data or are cut short by a power loss.  Every
\* value written is the short one.
InitFaults == Constructed(MaxFaults)

NextFaults ==
    \/ DoInit
    \/ \E key \in Keys, value \in FaultValues : DoPut(key, value)
    \/ \E key \in Keys : DoDelete(key)
    \/ DoGarbageCollectPartial
    \/ DoGarbageCollectFull

SpecFaults == InitFaults /\ [][NextFaults]_vars

-----------------------------------------------------------------------------
(* What a caller observes.                                                 *)

\* The last call returned (it was not cut short by a power loss or a crash).
Returned == last.status \notin {"POWER_LOSS", "CRASH"}

EmptySectorExists == \E s \in DOMAIN sectors : SectorEmpty(sectors[s])

\* The cells of flash that hold a complete entry of key.
EntriesOf(key) ==
    {c \in DOMAIN flash : flash[c].t = "entry" /\ flash[c].ok /\ flash[c].key = key}

\* The non-deleted descriptors of key.
LiveDescriptors(key) ==
    {i \in 1 .. Len(key_descriptors) :
        /\ key_descriptors[i].hash = Hash(key)
        /\ ~KdDeleted(key_descriptors[i])}

-----------------------------------------------------------------------------
(* Properties.                                                             *)

\* C1 (persistence): in a run without faults, whenever Init has returned OK or
\* DATA_LOSS (the store torn down and initialized again on the same flash),
\* Get of every key returns exactly the value of the last Put of the key that
\* returned OK, and NOT_FOUND if the last successful call on the key was a
\* Delete (or there was none).  The runs include Puts and Deletes that
\* returned an error, which write nothing.
C1_Persistence ==
    (last.op = "Init" /\ last.status \in {"OK", "DATA_LOSS"})
        => \A k \in Keys : expect[k] = {Outcome(Now, k)}

\* Init ran on a flash that holds two entries of "a", the newer one with the
\* long value, and a tombstone of "b".
C1_Witness ==
    /\ last.op = "Init" /\ last.status = "OK"
    /\ expect["a"] = {"Y"} /\ Cardinality(EntriesOf("a")) >= 2
    /\ expect["b"] = {Absent}
    /\ \E c \in EntriesOf("b") : EntryDeleted(flash[c])

\* C2 (crash safety of a write): when the power was lost during the write of
\* the entry of a Put or a Delete (after any prefix of its bytes; the only
\* fault of the run), a following undisturbed Init returns OK or DATA_LOSS,
\* Get of the key being written returns the value it had or the value being
\* written (NOT_FOUND for a tombstone), and Get of every other key returns the
\* value it had.
C2_CrashSafety ==
    (last.op = "Init" /\ hist.torn /\ hist.faults = 1 /\ ~last.fired)
        => /\ last.status \in {"OK", "DATA_LOSS"}
           /\ \A k \in Keys : Outcome(Now, k) \in expect[k]

\* Init ran after a torn write of a key that had a value, found the torn
\* entry (DATA_LOSS), and the other key has a value too.
C2_Witness ==
    /\ last.op = "Init" /\ hist.torn /\ hist.faults = 1 /\ ~last.fired
    /\ last.status = "DATA_LOSS"
    /\ \E k \in Keys : expect[k] = {"x", Absent}
    /\ \E k \in Keys : expect[k] = {"x"}

DeletedDescriptor(key) ==
    \E i \in 1 .. Len(key_descriptors) :
        /\ key_descriptors[i].hash = Hash(key)
        /\ KdDeleted(key_descriptors[i])
        /\ flash[CellOf(KdAddress(key_descriptors[i]))] \in
               {flash[c] : c \in {d \in EntriesOf(key) : EntryDeleted(flash[d])}}
        /\ key_descriptors[i].transaction_id =
               flash[CellOf(KdAddress(key_descriptors[i]))].transaction_id

\* A loop from begin() to end() visits exactly the descriptors that are not
\* deleted, size() of them, in the order of the table.
IterationInTableOrder ==
    With(Iterate(key_descriptors), LAMBDA it :
        /\ Len(it) = Size(key_descriptors)
        /\ {it[j] : j \in 1 .. Len(it)} =
               {i \in 1 .. Len(key_descriptors) : ~KdDeleted(key_descriptors[i])}
        /\ \A j \in 1 .. (Len(it) - 1) : it[j] < it[j + 1])

\* The keys a loop from begin() to end() yields.
IteratedKeys ==
    With(Iterate(key_descriptors), LAMBDA it :
        {ItemKey(Now, it[j]) : j \in 1 .. Len(it)})

\* C4 (Delete): a Delete(key) that returns OK was made on a key that Get
\* found; after it Get(key) and ValueSize(key) return NOT_FOUND, size() is
\* one less, the descriptor of the key is in the table in state deleted with
\* the transaction id of the tombstone, and iteration yields the size()
\* descriptors that are not deleted, in table order, and not the key.
C4_Delete ==
    [][\A k \in Keys :
          (last'.op = "Delete" /\ last'.key = k /\ last'.status = "OK")
              => /\ Get(Now, k).status = "OK"
                 /\ (Get(Now, k).status = "NOT_FOUND")'
                 /\ (ValueSize(Now, k).status = "NOT_FOUND")'
                 /\ Size(key_descriptors)' = Size(key_descriptors) - 1
                 /\ DeletedDescriptor(k)'
                 /\ IterationInTableOrder'
                 /\ (k \notin IteratedKeys)']_vars

\* Delete returned OK on the first key of the table while the second key has
\* a value: iteration skips the first descriptor.
C4_Witness ==
    /\ last.op = "Delete" /\ last.status = "OK"
    /\ Len(key_descriptors) = 2
    /\ KdDeleted(key_descriptors[1]) /\ ~KdDeleted(key_descriptors[2])
    /\ Iterate(key_descriptors) = <<2>>

\* C5 (no resurrection): while the last call on a key that returned OK is a
\* Delete (or the key was never written), Get of the key returns NOT_FOUND on
\* the initialized store, whatever garbage collections, writes of other
\* keys, failed Puts of the key and Init cycles have followed.
C5_NoResurrection ==
    \A k \in Keys :
        (initialized /\ expect[k] = {Absent}) => Outcome(Now, k) = Absent

\* Init ran on a flash on which a deleted key still has an older valid entry,
\* in another sector than its tombstone.
C5_Witness ==
    /\ last.op = "Init" /\ last.status = "OK" /\ initialized
    /\ \E k \in Keys :
          /\ expect[k] = {Absent}
          /\ \E c, d \in EntriesOf(k) :
                /\ ~EntryDeleted(flash[c]) /\ EntryDeleted(flash[d])
                /\ c \div CellsPerSector # d \div CellsPerSector

\* C6 (garbage collection is invisible): a GarbageCollectPartial or
\* GarbageCollectFull that returns OK leaves the result of Get and ValueSize
\* of every key (status, size, bytes), size() and the set of keys that
\* iteration yields as they were before the call.
C6_GcInvisible ==
    [][(last'.op \in GcCalls /\ last'.status = "OK")
          => /\ \A k \in AllKeys :
                  /\ Get(Now, k)' = Get(Now, k)
                  /\ ValueSize(Now, k)' = ValueSize(Now, k)
             /\ Size(key_descriptors)' = Size(key_descriptors)
             /\ IteratedKeys' = IteratedKeys]_vars

\* A garbage collection returned OK after relocating an entry and erasing a
\* sector, with a value and a deleted key in the store.
C6_Witness ==
    /\ last.op \in GcCalls /\ last.status = "OK"
    /\ last.nreloc >= 1 /\ last.nerase >= 1
    /\ \E k \in Keys : Outcome(Now, k) = "Y"
    /\ \E i \in 1 .. Len(key_descriptors) : KdDeleted(key_descriptors[i])

\* The last call was a garbage collection that returned an error, or a Put or
\* a Delete whose garbage collection returned an error.
GcFailed ==
    /\ Returned
    /\ \/ last.op \in GcCalls /\ last.status # "OK"
       \/ last.op \in {"Put", "Delete"} /\ last.gc = "failed"

\* What Get returns for a key once the store is torn down and Init has run
\* again on the flash as it is.
OutcomeAfterInit(key) == Outcome(KvsInit(Now).m, key)

\* C7 (a failed garbage collection loses no data): when a
\* GarbageCollectPartial, a GarbageCollectFull or the garbage collection of a
\* Put or a Delete on an initialized store returns an error, Get of every key
\* returns what it returned before the call, immediately and after a later
\* Init.
C7_FailedGcLosesNoData ==
    [][(initialized /\ GcFailed')
          => \A k \in Keys :
                /\ Outcome(Now, k)' = Outcome(Now, k)
                /\ OutcomeAfterInit(k)' = Outcome(Now, k)]_vars

\* C7 case: a Put ran a garbage collection that relocated an entry and then
\* returned an error, leaving no sector empty.
C7_Witness ==
    /\ initialized /\ GcFailed /\ last.op = "Put"
    /\ last.nreloc >= 1 /\ ~EmptySectorExists

\* C8 (free sector after Init and partial garbage collection): whenever Init
\* has returned OK or DATA_LOSS, and whenever GarbageCollectPartial has
\* returned OK, a sector is fully empty (writable_bytes = sector size, so no
\* valid bytes); and an Init that observed no empty sector (it ran the
\* garbage collection) either returned OK or DATA_LOSS with a sector empty,
\* or returned INTERNAL.
C8_FreeSectorAfterInit ==
    /\ (\/ last.op = "Init" /\ last.status \in {"OK", "DATA_LOSS"}
        \/ last.op = "GarbageCollectPartial" /\ last.status = "OK")
           => EmptySectorExists
    /\ (last.op = "Init" /\ last.gc # "none")
           => \/ last.status \in {"OK", "DATA_LOSS"} /\ EmptySectorExists
              \/ last.status = "INTERNAL"

\* C8, for the calls that return: whenever Init has returned OK or DATA_LOSS,
\* and whenever GarbageCollectPartial has returned OK, a sector is fully
\* empty; and an Init that ran the garbage collection and returned, returned
\* OK or DATA_LOSS with a sector empty, or INTERNAL.
C8_FreeSectorWhenReturned ==
    /\ (\/ last.op = "Init" /\ last.status \in {"OK", "DATA_LOSS"}
        \/ last.op = "GarbageCollectPartial" /\ last.status = "OK")
           => EmptySectorExists
    /\ (last.op = "Init" /\ last.gc # "none" /\ Returned)
           => \/ last.status \in {"OK", "DATA_LOSS"} /\ EmptySectorExists
              \/ last.status = "INTERNAL"

\* C8 case: an Init that found no sector empty made one by garbage collection.
C8_Witness ==
    /\ last.op = "Init" /\ last.gc = "ok" /\ last.status \in {"OK", "DATA_LOSS"}
    /\ last.nerase >= 1 /\ EmptySectorExists

\* The last call was a Put, a Delete or a garbage collection.
Wrote == last.op \in {"Put", "Delete"} \cup GcCalls

RECURSIVE EntryBytesIn(_, _, _)
EntryBytesIn(sector, i, j) ==
    IF i > Len(key_descriptors) THEN 0
    ELSE IF j > Len(key_descriptors[i].addresses) THEN EntryBytesIn(sector, i + 1, 1)
    ELSE (IF AddressInSector(sector, key_descriptors[i].addresses[j])
          THEN EntrySize(EntryRead(flash, key_descriptors[i].addresses[j]).entry)
          ELSE 0)
         + EntryBytesIn(sector, i, j + 1)

\* C10 (sector accounting): after Init and after every Put, Delete and
\* garbage collection has returned, with any status, the valid_bytes of every
\* sector is the sum of entry.size() over the descriptor addresses that lie
\* in the sector, tombstones included, and writable_bytes + valid_bytes is at
\* most the sector size (recoverable bytes are not negative).
C10_SectorAccounting ==
    (last.op # "none" /\ Returned)
        => \A s \in DOMAIN sectors :
              /\ sectors[s].valid_bytes = EntryBytesIn(s, 1, 1)
              /\ sectors[s].writable_bytes + sectors[s].valid_bytes <= SectorSizeBytes
              /\ RecoverableBytes(sectors[s]) >= 0

\* C10 case: a garbage collection failed after relocating an entry, with a
\* tombstone in the table, and some sector holds valid bytes and stale bytes.
C10_Witness ==
    /\ GcFailed /\ last.nreloc >= 1
    /\ \E i \in 1 .. Len(key_descriptors) : KdDeleted(key_descriptors[i])
    /\ \E s \in DOMAIN sectors :
          sectors[s].valid_bytes > 0 /\ RecoverableBytes(sectors[s]) > 0

\* C11 (transaction ids are burned within a session): a Put, a Delete or a
\* garbage collection that returns raises last_transaction_id by exactly the
\* number of entry writes it started (its own entry and every relocation),
\* whether the writes and their verification succeeded or failed; a call
\* that started no write leaves it unchanged; and transaction_count() never
\* decreases.  (The count is stated for the calls that did not use a null
\* sector.)
C11_IdBurning ==
    [][(Wrote' /\ Returned')
          => /\ last_transaction_id' >= last_transaction_id
             /\ ~last'.ub =>
                   last_transaction_id' = last_transaction_id + last'.nwrite
             /\ (last'.op \in {"Put", "Delete"} /\ last'.status = "OK")
                   => last'.nwrite = 1 + last'.nreloc]_vars

\* C11 case: a Put relocated an entry in its garbage collection and then
\* failed in the write of its own entry.
C11_Witness ==
    /\ last.op = "Put" /\ Returned /\ last.status # "OK"
    /\ last.fired /\ last.gc = "ok" /\ last.nreloc >= 1
    /\ last.nwrite = last.nreloc + 1

\* C12 (transaction count across re-initialization): when the store is torn
\* down and Init returns OK or DATA_LOSS on the same flash,
\* transaction_count() is not smaller than it was before, also when the last
\* writes before failed (their ids were consumed).
C12_CountAcrossInit ==
    [][(init_called /\ last'.op = "Init" /\ last'.status \in {"OK", "DATA_LOSS"})
          => last_transaction_id' >= last_transaction_id]_vars

\* C12 case: Init ran on a store whose last write had failed, after writes
\* that succeeded.
C12_Witness ==
    /\ last.op = "Init" /\ last.status \in {"OK", "DATA_LOSS"}
    /\ hist.faults = 1 /\ ~hist.clean /\ ~hist.torn
    /\ last_transaction_id >= 2

\* C13 (transaction ids are unique): no two entries on flash whose header
\* was written, by a Put, a Delete or a relocation, whole or in part, carry
\* the same transaction id.
C13_UniqueIds ==
    \A c, d \in DOMAIN flash :
        (c # d /\ flash[c].t = "entry" /\ flash[d].t = "entry")
            => flash[c].transaction_id # flash[d].transaction_id

\* C13 case: a write was made after an Init that followed a failed write
\* whose header is on flash.
C13_Witness ==
    /\ last.op \in {"Put", "Delete"} /\ last.status = "OK"
    /\ hist.faults = 1 /\ hist.after = 2
    /\ \E c \in DOMAIN flash : flash[c].t = "entry" /\ ~flash[c].ok

\* The sum of f[x] over the x of S.
RECURSIVE SumOver(_, _)
SumOver(f, S) ==
    IF S = {} THEN 0
    ELSE With(CHOOSE x \in S : TRUE, LAMBDA x : f[x] + SumOver(f, S \ {x}))

\* GetStorageStats(): the first empty sector is not counted as writable.
GetStorageStats ==
    With({s \in DOMAIN sectors : SectorEmpty(sectors[s])}, LAMBDA empties :
        [writable_bytes |->
            SumOver([s \in DOMAIN sectors |-> sectors[s].writable_bytes],
                    DOMAIN sectors)
            - (IF empties = {} THEN 0 ELSE SectorSizeBytes),
         in_use_bytes |->
            SumOver([s \in DOMAIN sectors |-> sectors[s].valid_bytes],
                    DOMAIN sectors),
         reclaimable_bytes |->
            SumOver([s \in DOMAIN sectors |-> RecoverableBytes(sectors[s])],
                    DOMAIN sectors)])

\* C14 (a full garbage collection is idempotent): after a GarbageCollectFull
\* that returned OK no sector has recoverable bytes; and a GarbageCollectFull
\* called right after one that returned OK returns OK, erases no sector,
\* relocates and writes no entry and leaves GetStorageStats, the sector
\* descriptors, the key descriptors and the flash as they were.  (Stated for
\* the calls that did not use a null sector.)
C14_FullGcIdempotent ==
    [][/\ (last'.op = "GarbageCollectFull" /\ last'.status = "OK" /\ ~last'.ub)
            => \A s \in DOMAIN sectors' : RecoverableBytes(sectors'[s]) = 0
       /\ (last.op = "GarbageCollectFull" /\ last.status = "OK" /\ ~last.ub
             /\ last'.op = "GarbageCollectFull")
            => /\ last'.status = "OK"
               /\ last'.nerase = 0 /\ last'.nreloc = 0 /\ last'.nwrite = 0
               /\ GetStorageStats' = GetStorageStats
               /\ sectors' = sectors /\ key_descriptors' = key_descriptors
               /\ flash' = flash]_vars

\* C14 case: a second GarbageCollectFull in a row returned, after a first
\* one that erased a sector and relocated an entry.
C14_Witness ==
    /\ last.op = "GarbageCollectFull" /\ last.status = "OK"
    /\ last.nerase = 0 /\ last.nreloc = 0
    /\ last_transaction_id >= 3
    /\ GetStorageStats.in_use_bytes > 0
    /\ Cardinality({s \in DOMAIN sectors : SectorEmpty(sectors[s])}) = 1

-----------------------------------------------------------------------------
(* A store for three keys, filled by Puts.                                 *)

FillKeys == {"a", "b", "c"}

FillOptions == [DefaultOptions EXCEPT !.max_entries = Cardinality(FillKeys)]

InitFill ==
    /\ partition \in Partitions
    /\ flash = [c \in 0 .. (NumCells - 1) |-> ErasedCell]
    /\ sectors = <<>>
    /\ key_descriptors = <<>>
    /\ last_new_sector = NullSector
    /\ last_transaction_id = 0
    /\ initialized = FALSE
    /\ init_called = FALSE
    /\ options = FillOptions
    /\ last = NoCall
    /\ expect = [k \in AllKeys |-> {Absent}]
    /\ hist = [faults |-> 0, after |-> 0, budget |-> 0, clean |-> TRUE,
               torn |-> FALSE]
    /\ encoder = NoEncoder

NextFill ==
    \/ DoInit
    \/ \E key \in FillKeys, value \in Values : DoPut(key, value)
    \/ DoGarbageCollectFull

SpecFill == InitFill /\ [][NextFill]_vars

\* Distinct keys were Put until the Put of one more key, for which the
\* descriptor table has room, returned RESOURCE_EXHAUSTED: the flash holds
\* one entry per key and nothing stale.
Filled ==
    /\ initialized
    /\ last.op = "Put" /\ last.status = "RESOURCE_EXHAUSTED"
    /\ Outcome(Now, last.key) = Absent
    /\ Len(key_descriptors) < options.max_entries
    /\ \A s \in DOMAIN sectors : RecoverableBytes(sectors[s]) = 0

\* The keys the store holds.
StoredKeys == {k \in FillKeys : Outcome(Now, k) \in Values}

\* A sector other than the last empty one has room for size bytes.
HasRoom(m, size) ==
    \/ \E s \in DOMAIN m.sectors :
          /\ m.sectors[s].writable_bytes < SectorSizeBytes
          /\ m.sectors[s].writable_bytes >= size
    \/ Cardinality({s \in DOMAIN m.sectors : SectorEmpty(m.sectors[s])}) >= 2

\* C15 (overwrite after filling the store): when distinct keys have been Put
\* until Put returned RESOURCE_EXHAUSTED for lack of flash space,
\* GarbageCollectFull returns OK and a following Put that overwrites a
\* stored key with a value of the same size returns OK.
C15_OverwriteAfterFill ==
    Filled =>
        With(GarbageCollectFull(Now), LAMBDA g :
            /\ g.status = "OK"
            /\ \A k \in StoredKeys :
                  PutBytes(g.m, k, Outcome(Now, k)).status = "OK")

\* C15, amended: GarbageCollectFull returns OK and changes no Get; the
\* following Put that overwrites a stored key with a value of the same size
\* returns OK, and Get then returns the value, when a sector other than the
\* last empty one has room for the entry; otherwise it returns
\* RESOURCE_EXHAUSTED and changes no Get.
C15_OverwriteAfterFillIfRoom ==
    Filled =>
        With(GarbageCollectFull(Now), LAMBDA g :
            /\ g.status = "OK"
            /\ \A k \in FillKeys : Outcome(g.m, k) = Outcome(Now, k)
            /\ \A k \in StoredKeys :
                With(PutBytes(g.m, k, Outcome(Now, k)), LAMBDA p :
                    /\ p.status =
                          IF HasRoom(g.m, EntrySizeFor(k, Outcome(Now, k)))
                          THEN "OK" ELSE "RESOURCE_EXHAUSTED"
                    /\ \A j \in FillKeys : Outcome(p.m, j) = Outcome(Now, j)))

\* C15 case: the store is filled, one stored key can be overwritten and
\* another cannot.
C15_Witness ==
    /\ Filled
    /\ \E k \in StoredKeys : HasRoom(Now, EntrySizeFor(k, Outcome(Now, k)))
    /\ \E k \in StoredKeys : ~HasRoom(Now, EntrySizeFor(k, Outcome(Now, k)))

-----------------------------------------------------------------------------
(* Failed writes.                                                          *)

\* The descriptor of the key, as a set: empty when the key has none.
DescriptorOf(key) ==
    {key_descriptors[i] :
        i \in {j \in DOMAIN key_descriptors :
                  key_descriptors[j].hash = Hash(key)}}

\* The write or the verification of the entry of the Put or Delete failed,
\* and the call returned.
WriteFailed ==
    /\ last.op \in {"Put", "Delete"} /\ Returned
    /\ last.fired /\ last.status # "OK" /\ last.gc # "failed"

\* What a failed write leaves, relative to the state before the call.
FailedWriteLeaves ==
    /\ last'.status \in {"UNAVAILABLE", "DATA_LOSS"}
    /\ \A k \in Keys : k = last'.key => DescriptorOf(k)' = DescriptorOf(k)
    /\ \A s \in DOMAIN sectors :
          /\ sectors'[s].valid_bytes = sectors[s].valid_bytes
          /\ sectors[s].writable_bytes - sectors'[s].writable_bytes =
                kMinAlignmentBytes *
                Cardinality({c \in DOMAIN flash :
                               /\ c \div CellsPerSector = s
                               /\ flash'[c] # flash[c]})
    /\ \A k \in Keys : k = last'.key => Outcome(Now, k)' = Outcome(Now, k)

\* C16 (failed write leaves a consistent state): when the flash write or the
\* verify-on-write check of a Put or Delete fails, the call returns the
\* error, the key's descriptor is unchanged (for a new key, none is added),
\* no sector's valid_bytes changes, the target sector's writable_bytes is
\* reduced by exactly the number of bytes written to flash, and Get of the
\* key returns what it returned before the call.
C16_FailedWrite ==
    [][(initialized /\ WriteFailed') => FailedWriteLeaves]_vars

\* What a write that failed after the call's garbage collection leaves: the
\* collection has moved entries, the key reads as before and has a
\* descriptor exactly if it had one.
FailedWriteAfterGcLeaves ==
    /\ last'.status \in {"UNAVAILABLE", "DATA_LOSS"}
    /\ \A k \in Keys : k = last'.key =>
          /\ Outcome(Now, k)' = Outcome(Now, k)
          /\ (DescriptorOf(k)' = {}) = (DescriptorOf(k) = {})
          /\ \A d \in DescriptorOf(k), e \in DescriptorOf(k)' :
                e.state = d.state

\* C16, amended: the descriptor, valid_bytes and writable_bytes statements
\* hold for the calls that ran no garbage collection before the write; a
\* call that collected garbage first and then failed to write returns the
\* error and leaves what Get returns for the key, and the state of its
\* descriptor, unchanged.
C16_FailedWriteAfterGc ==
    [][(initialized /\ WriteFailed') =>
          IF last'.gc = "none" THEN FailedWriteLeaves
          ELSE FailedWriteAfterGcLeaves]_vars

\* C16 case: the verification of the entry written by a Put of a stored key
\* failed, with no garbage collection in the call.
C16_Witness ==
    /\ WriteFailed /\ last.op = "Put" /\ last.gc = "none"
    /\ last.status = "DATA_LOSS"
    /\ \E k \in Keys : k = last.key /\ DescriptorOf(k) # {}

-----------------------------------------------------------------------------
(* Calls with any argument, on a store built with any of three Options.    *)

CallKeys == {"a", "ab", "", "long"}

CallValues == {"x", "M", "N"}

\* The default options, a sector table for two sectors only, and a working
\* buffer of 64 bytes.
CallOptions ==
    {DefaultOptions,
     [DefaultOptions EXCEPT !.max_usable_sectors = 2],
     [DefaultOptions EXCEPT !.working_buffer_bytes = 64]}

InitCalls ==
    /\ partition \in Partitions
    /\ flash = [c \in 0 .. (NumCells - 1) |-> ErasedCell]
    /\ sectors = <<>>
    /\ key_descriptors = <<>>
    /\ last_new_sector = NullSector
    /\ last_transaction_id = 0
    /\ initialized = FALSE
    /\ init_called = FALSE
    /\ options \in CallOptions
    /\ last = NoCall
    /\ expect = [k \in AllKeys |-> {Absent}]
    /\ hist = [faults |-> 0, after |-> 0, budget |-> 0, clean |-> TRUE,
               torn |-> FALSE]
    /\ encoder = NoEncoder

\* A call that reads: only its result is recorded.
Reads(op, key, status, value) ==
    /\ last' = [NoCall EXCEPT !.op = op, !.key = key, !.status = status,
                              !.value = value]
    /\ UNCHANGED <<partition, flash, sectors, key_descriptors, last_new_sector,
                   last_transaction_id, initialized, init_called, options,
                   expect, hist, encoder>>

DoGet(key) ==
    \E g \in {Get(Now, key)} : Reads("Get", key, g.status, g.value)

DoValueSize(key) ==
    \E v \in {ValueSize(Now, key)} : Reads("ValueSize", key, v.status, "")

NextCalls ==
    \/ DoInit
    \/ \E key \in CallKeys, value \in CallValues : DoPut(key, value)
    \/ \E key \in CallKeys : DoDelete(key)
    \/ \E key \in CallKeys : DoGet(key)
    \/ \E key \in CallKeys : DoValueSize(key)

SpecCalls == InitCalls /\ [][NextCalls]_vars

KeyCalls == {"Get", "Put", "Delete", "ValueSize"}

\* The call changed nothing: flash, descriptors, sector counters and
\* transaction id are as before.
NothingChanged ==
    /\ flash' = flash
    /\ key_descriptors' = key_descriptors
    /\ sectors' = sectors
    /\ last_transaction_id' = last_transaction_id
    /\ last'.nwrite = 0 /\ last'.nerase = 0

\* C17 (argument and initialization checks): Get, Put, Delete and ValueSize
\* return INVALID_ARGUMENT for an empty key or a key longer than 63 bytes,
\* also on a store that is not initialized, and FAILED_PRECONDITION for a
\* valid key on a store that is not initialized; Put returns
\* INVALID_ARGUMENT when the padded entry is larger than a sector, and not
\* when it is as large as a sector; the rejected calls change nothing.
C17_ArgumentChecks ==
    [][\A key \in CallKeys :
        (last'.op \in KeyCalls /\ last'.key = key) =>
          /\ (KeySize(key) = 0 \/ KeySize(key) > kMaxKeyLength) =>
                last'.status = "INVALID_ARGUMENT" /\ NothingChanged
          /\ (KeySize(key) \in 1 .. kMaxKeyLength /\ ~initialized) =>
                last'.status = "FAILED_PRECONDITION" /\ NothingChanged
          /\ \A value \in CallValues :
                (/\ last'.op = "Put" /\ last'.value = value /\ initialized
                 /\ KeySize(key) \in 1 .. kMaxKeyLength) =>
                   /\ EntrySizeFor(key, value) > SectorSizeBytes =>
                         last'.status = "INVALID_ARGUMENT" /\ NothingChanged
                   /\ EntrySizeFor(key, value) = SectorSizeBytes =>
                         last'.status # "INVALID_ARGUMENT"]_vars

\* C17 case: on an initialized store that holds a key, a Put of a valid key
\* with an entry larger than a sector was rejected.
C17_Witness ==
    /\ initialized /\ key_descriptors # <<>>
    /\ last.op = "Put" /\ last.status = "INVALID_ARGUMENT"
    /\ last.key = "a" /\ last.value = "N"

\* C18 (Init preconditions): Init returns FAILED_PRECONDITION, with
\* initialized() false, both when the partition has more sectors than the
\* sector table holds and when the working buffer is smaller than a sector.
C18_InitPreconditions ==
    (/\ last.op = "Init"
     /\ \/ SectorCount > options.max_usable_sectors
        \/ options.working_buffer_bytes < SectorSizeBytes)
    => (last.status = "FAILED_PRECONDITION" /\ ~initialized)

\* C18, amended: FAILED_PRECONDITION for too many sectors, INVALID_ARGUMENT
\* for a working buffer smaller than a sector (the sector count is checked
\* first); initialized() is false in both cases, and the store holds no
\* descriptor.
C18_InitPreconditionStatus ==
    (last.op = "Init") =>
        /\ SectorCount > options.max_usable_sectors =>
              /\ last.status = "FAILED_PRECONDITION"
              /\ ~initialized /\ key_descriptors = <<>>
        /\ (/\ SectorCount <= options.max_usable_sectors
            /\ options.working_buffer_bytes < SectorSizeBytes) =>
              /\ last.status = "INVALID_ARGUMENT"
              /\ ~initialized /\ key_descriptors = <<>>

\* C18 case: Init has refused a working buffer smaller than a sector.
C18_Witness ==
    /\ last.op = "Init" /\ ~initialized
    /\ options.working_buffer_bytes < SectorSizeBytes
    /\ last.status = "INVALID_ARGUMENT"

\* The key's hash is the hash of a descriptor whose entry holds another key.
Collides(key) ==
    \E i \in DOMAIN key_descriptors :
        /\ key_descriptors[i].hash = Hash(key)
        /\ flash[CellOf(KdAddress(key_descriptors[i]))].key # key

\* C20 (hash collision): on an initialized store, a Put (of a valid key and
\* a value that fits a sector) of a key whose hash is the hash of a descriptor
\* of a different key returns ALREADY_EXISTS; Get, ValueSize and Delete of
\* such a key return NOT_FOUND; none of them changes flash, descriptors,
\* sector counters or the transaction id.
C20_HashCollision ==
    [][\A key \in CallKeys \ {"", "long"} :
        (/\ initialized /\ Collides(key)
         /\ last'.op \in KeyCalls /\ last'.key = key
         /\ \A value \in CallValues :
               (last'.op = "Put" /\ last'.value = value) =>
                   EntrySizeFor(key, value) <= SectorSizeBytes) =>
          /\ last'.status =
                IF last'.op = "Put" THEN "ALREADY_EXISTS" ELSE "NOT_FOUND"
          /\ NothingChanged]_vars

\* C20 case: the Put of a key was refused because its hash is the hash of a
\* stored key.
C20_Witness ==
    /\ last.op = "Put" /\ last.status = "ALREADY_EXISTS"
    /\ Collides(last.key)
    /\ \E k \in CallKeys : k # last.key /\ Outcome(Now, k) \in CallValues

\* The key's hash is the hash of a descriptor whose entry holds another key,
\* one that does not begin with the bytes of the key.
CollidesNotPrefix(key) ==
    \E i \in DOMAIN key_descriptors :
        /\ key_descriptors[i].hash = Hash(key)
        /\ EntryReadKey(flash, KdAddress(key_descriptors[i]), KeySize(key)).bytes
              # KeyBytes(key)

\* C20 for the keys that are not the first bytes of the stored key: the
\* statuses and the absence of any change are as C20 states.
C20_HashCollisionNotPrefix ==
    [][\A key \in CallKeys \ {"", "long"} :
        (/\ initialized /\ CollidesNotPrefix(key)
         /\ last'.op \in KeyCalls /\ last'.key = key
         /\ \A value \in CallValues :
               (last'.op = "Put" /\ last'.value = value) =>
                   EntrySizeFor(key, value) <= SectorSizeBytes) =>
          /\ last'.status =
                IF last'.op = "Put" THEN "ALREADY_EXISTS" ELSE "NOT_FOUND"
          /\ NothingChanged]_vars

\* C20 failure: the store held "ab"; the Put of "a", whose hash is the same,
\* returned OK and took over the descriptor.
C20_PrefixTakesOver ==
    /\ last.op = "Put" /\ last.key = "a" /\ last.status = "OK"
    /\ Len(key_descriptors) = 1
    /\ \E c \in DOMAIN flash : flash[c].t = "entry" /\ flash[c].key = "ab"
    /\ Outcome(Now, "ab") = Absent

-----------------------------------------------------------------------------
(* Init over corrupt flash.                                                *)

\* The cell lies in the body of the entry that begins at cell h.
InBodyOf(fl, h, c) ==
    /\ fl[h].t = "entry"
    /\ h < c /\ c < h + (EntrySize(fl[h]) \div kMinAlignmentBytes)
    /\ h \div CellsPerSector = c \div CellsPerSector

\* The bytes of the cell are corrupt: an entry whose checksum does not
\* match, or bytes without magic outside the body of any entry.
CorruptCell(fl, c) ==
    \/ fl[c].t = "entry" /\ ~fl[c].ok
    \/ fl[c].t = "data" /\ ~\E h \in DOMAIN fl : InBodyOf(fl, h, c)

CorruptSector(fl, s) ==
    \E c \in DOMAIN fl : c \div CellsPerSector = s /\ CorruptCell(fl, c)

\* The entry at cell c is intact and no intact entry of its key is newer.
NewestIntact(fl, c) ==
    /\ fl[c].t = "entry" /\ fl[c].ok
    /\ \A d \in DOMAIN fl :
          (fl[d].t = "entry" /\ fl[d].ok /\ fl[d].key = fl[c].key) =>
              fl[d].transaction_id <= fl[c].transaction_id

\* Init ran to its end over flash that holds corrupt bytes.
InitMetCorruption ==
    /\ last'.op = "Init" /\ ~last'.fired
    /\ \E s \in SectorIds : CorruptSector(flash, s)

\* C19 (Init survives corruption): an Init that meets an unreadable header, an
\* unrecognized magic or a checksum mismatch in a sector completes and
\* returns DATA_LOSS with initialized() true; every intact entry, also one
\* that lies after the corrupt bytes in its sector, is indexed and readable
\* (Get returns the value of the newest intact entry of each key, NOT_FOUND
\* for a tombstone); every sector that still holds corrupt bytes has
\* writable_bytes = 0.
C19_InitSurvivesCorruption ==
    [][InitMetCorruption =>
        /\ last'.status = "DATA_LOSS" /\ initialized'
        /\ \A c \in DOMAIN flash : \A k \in Keys :
              (NewestIntact(flash, c) /\ flash[c].key = k) =>
                 /\ DescriptorOf(k)' # {}
                 /\ Outcome(Now, k)' =
                      IF EntryDeleted(flash[c]) THEN Absent ELSE flash[c].val
        /\ \A s \in SectorIds :
              CorruptSector(flash', s) => sectors'[s].writable_bytes = 0]_vars

\* C19 for the Inits whose garbage collection, if they ran one, succeeded.
C19_InitSurvivesUnlessGcFails ==
    [][(InitMetCorruption /\ last'.gc # "failed") =>
        /\ last'.status = "DATA_LOSS" /\ initialized'
        /\ \A c \in DOMAIN flash : \A k \in Keys :
              (NewestIntact(flash, c) /\ flash[c].key = k) =>
                 /\ DescriptorOf(k)' # {}
                 /\ Outcome(Now, k)' =
                      IF EntryDeleted(flash[c]) THEN Absent ELSE flash[c].val
        /\ \A s \in SectorIds :
              CorruptSector(flash', s) => sectors'[s].writable_bytes = 0]_vars

\* C19 failure: Init met corrupt bytes left by a failed relocation, found no
\* empty sector, and its garbage collection failed.
C19_InitFailed ==
    /\ last.op = "Init" /\ ~last.fired /\ last.gc = "failed"
    /\ last.status \in {"INTERNAL", "CRASH"}
    /\ ~initialized
    /\ \E s \in SectorIds : CorruptSector(flash, s)

\* C19 case: Init returned DATA_LOSS over a sector in which the newest intact
\* entry of a key lies after corrupt bytes.
C19_Witness ==
    /\ last.op = "Init" /\ last.status = "DATA_LOSS" /\ initialized
    /\ \E c, d \in DOMAIN flash :
          /\ c < d /\ c \div CellsPerSector = d \div CellsPerSector
          /\ CorruptCell(flash, c) /\ NewestIntact(flash, d)
          /\ sectors[c \div CellsPerSector].writable_bytes = 0

-----------------------------------------------------------------------------
(* Three keys for a table of two descriptors, with garbage collection on   *)
(* write disabled or set to as many sectors as needed.                     *)

TableKeys == {"a", "b", "c"}

TableValues == {"x", "M"}

TableOptions ==
    {[DefaultOptions EXCEPT !.gc_on_write = g] :
        g \in {"kDisabled", "kAsManySectorsNeeded"}}

InitTable ==
    /\ partition \in Partitions
    /\ flash = [c \in 0 .. (NumCells - 1) |-> ErasedCell]
    /\ sectors = <<>>
    /\ key_descriptors = <<>>
    /\ last_new_sector = NullSector
    /\ last_transaction_id = 0
    /\ initialized = FALSE
    /\ init_called = FALSE
    /\ options \in TableOptions
    /\ last = NoCall
    /\ expect = [k \in AllKeys |-> {Absent}]
    /\ hist = [faults |-> 0, after |-> 0, budget |-> 0, clean |-> TRUE,
               torn |-> FALSE]
    /\ encoder = NoEncoder

\* Bound: writes are offered to the table of two descriptors until this many
\* transaction ids are consumed.
MaxTableTid == 5

NextTable ==
    \/ DoInit
    \/ /\ last_transaction_id < MaxTableTid
       /\ \E key \in TableKeys, value \in TableValues : DoPut(key, value)
    \/ /\ last_transaction_id < MaxTableTid
       /\ \E key \in TableKeys : DoDelete(key)
    \/ DoGarbageCollectFull

SpecTable == InitTable /\ [][NextTable]_vars

\* The descriptor table holds max_entries descriptors.
TableFull == Len(key_descriptors) >= options.max_entries

\* C21 (descriptor table full): the Put of a new key when the table holds
\* max_entries descriptors returns RESOURCE_EXHAUSTED and does nothing: no
\* flash write, no garbage collection (no erase, no relocation), no change
\* of descriptors, sector counters or transaction id; the Put that
\* overwrites a key of the full table returns OK when a sector other than
\* the last empty one has room for the entry.
C21_TableFull ==
    [][\A key \in TableKeys :
        (initialized /\ TableFull /\ last'.op = "Put" /\ last'.key = key) =>
          IF DescriptorOf(key) = {}
          THEN /\ last'.status = "RESOURCE_EXHAUSTED"
               /\ NothingChanged
               /\ last'.gc = "none" /\ last'.nreloc = 0
          ELSE \A value \in TableValues :
                 (last'.value = value
                  /\ HasRoom(Now, EntrySizeFor(key, value))) =>
                     last'.status = "OK"]_vars

\* C21 case: the Put of a third key was refused by a full table although
\* garbage collection on write is enabled and a sector has bytes to recover.
C21_Witness ==
    /\ initialized /\ TableFull
    /\ last.op = "Put" /\ last.status = "RESOURCE_EXHAUSTED"
    /\ \E k \in TableKeys : k = last.key /\ DescriptorOf(k) = {}
    /\ options.gc_on_write # "kDisabled"
    /\ \E s \in DOMAIN sectors : RecoverableBytes(sectors[s]) > 0
    /\ \A s \in DOMAIN sectors :
          SectorEmpty(sectors[s]) \/ ~HasSpace(sectors[s], EntrySizeFor(last.key, last.value))

\* The hashes of the descriptors, in table order.
TableHashes == [i \in DOMAIN key_descriptors |-> key_descriptors[i].hash]

\* C22 (descriptors are never removed): a call other than Init keeps every
\* descriptor of the table in its place, so their number never decreases
\* between two Inits; a Delete that returns OK leaves the key's descriptor
\* in state deleted, and a Put of a key that has a descriptor, deleted or
\* not, adds none; a table that is full stays full, also over Init, so the
\* Put of a further key returns RESOURCE_EXHAUSTED even when every key of
\* the table is deleted and garbage has been collected.
C22_DescriptorsStay ==
    [][/\ (last'.op # "Init" /\ Returned') =>
             /\ Len(key_descriptors') >= Len(key_descriptors)
             /\ SubSeq(TableHashes', 1, Len(key_descriptors)) = TableHashes
       /\ \A key \in TableKeys :
             /\ (last'.op = "Delete" /\ last'.key = key /\ last'.status = "OK") =>
                   /\ DescriptorOf(key)' # {}
                   /\ \A d \in DescriptorOf(key)' : d.state = "kDeleted"
             /\ (last'.op = "Put" /\ last'.key = key /\ DescriptorOf(key) # {}) =>
                   Len(key_descriptors') = Len(key_descriptors)
             /\ (/\ initialized /\ TableFull /\ DescriptorOf(key) = {}
                 /\ last'.op = "Put" /\ last'.key = key) =>
                   last'.status = "RESOURCE_EXHAUSTED"
       /\ (initialized /\ TableFull) => TableFull']_vars

\* C22 case: both keys of the table are deleted, no sector has bytes left to
\* recover, and the Put of a third key was refused.
C22_Witness ==
    /\ initialized /\ TableFull
    /\ \A i \in DOMAIN key_descriptors : key_descriptors[i].state = "kDeleted"
    /\ \A s \in DOMAIN sectors : RecoverableBytes(sectors[s]) = 0
    /\ last.op = "Put" /\ last.status = "RESOURCE_EXHAUSTED"
    /\ \E k \in TableKeys : k = last.key /\ DescriptorOf(k) = {}

-----------------------------------------------------------------------------
(* Delete of a key that is not stored.                                     *)

\* C23 (Delete of a missing key): the Delete of a key that has no descriptor
\* (it was never written), or whose descriptor is in state deleted, returns
\* NOT_FOUND and writes no tombstone: flash, descriptors, sector counters and
\* the transaction id are unchanged.
C23_DeleteMissing ==
    [][\A key \in Keys :
        (/\ initialized /\ last'.op = "Delete" /\ last'.key = key
         /\ \A d \in DescriptorOf(key) : d.state = "kDeleted") =>
            /\ last'.status = "NOT_FOUND"
            /\ NothingChanged]_vars

\* C23 case: a key that was written and deleted was deleted again.
C23_Witness ==
    /\ initialized
    /\ last.op = "Delete" /\ last.status = "NOT_FOUND"
    /\ \E k \in Keys :
          /\ k = last.key /\ DescriptorOf(k) # {}
          /\ \A d \in DescriptorOf(k) :
                /\ d.state = "kDeleted"
                /\ EntryDeleted(flash[CellOf(KdAddress(d))])

-----------------------------------------------------------------------------
(* Garbage collection on write.                                            *)

\* The call reaches the allocator with an entry of this size: the Put of a
\* key that has a descriptor or for which the table has room, the Delete of
\* a stored key.  0: the call returns before.
AllocatedSize(op, key, value) ==
    IF op = "Put" /\ EntrySizeFor(key, value) <= SectorSizeBytes
                  /\ (DescriptorOf(key) # {} \/ ~TableFull)
    THEN EntrySizeFor(key, value)
    ELSE IF op = "Delete" /\ \E d \in DescriptorOf(key) : d.state = "kValid"
    THEN EntrySizeFor(key, "")
    ELSE 0

\* C24 (gc_on_write = kDisabled): a Put or Delete for which the allocator
\* finds no sector returns RESOURCE_EXHAUSTED without garbage collection: no
\* sector is erased, no entry relocated, and flash, descriptors, sector
\* counters and transaction id are unchanged.
C24_GcDisabled ==
    [][\A key \in TableKeys, value \in TableValues \cup {""} :
        (/\ initialized /\ options.gc_on_write = "kDisabled"
         /\ last'.op \in {"Put", "Delete"}
         /\ last'.key = key /\ last'.value = value
         /\ AllocatedSize(last'.op, key, value) > 0
         /\ ~HasRoom(Now, AllocatedSize(last'.op, key, value))) =>
            /\ last'.status = "RESOURCE_EXHAUSTED"
            /\ last'.gc = "none" /\ last'.nreloc = 0
            /\ NothingChanged]_vars

\* C24 case: with garbage collection on write disabled, the Put of a stored
\* key found no sector although a sector holds bytes to recover.
C24_Witness ==
    /\ initialized /\ options.gc_on_write = "kDisabled"
    /\ last.op = "Put" /\ last.status = "RESOURCE_EXHAUSTED"
    /\ \E k \in TableKeys : k = last.key /\ DescriptorOf(k) # {}
    /\ \E s \in DOMAIN sectors : RecoverableBytes(sectors[s]) > 0

\* C25 (gc_on_write = kAsManySectorsNeeded): a Put or Delete returns
\* RESOURCE_EXHAUSTED for lack of space only if the entry would not fit
\* either after every sector with recoverable bytes was garbage collected.
C25_AsManySectorsNeeded ==
    [][\A key \in TableKeys, value \in TableValues \cup {""} :
        (/\ initialized /\ options.gc_on_write = "kAsManySectorsNeeded"
         /\ last'.op \in {"Put", "Delete"}
         /\ last'.key = key /\ last'.value = value
         /\ AllocatedSize(last'.op, key, value) > 0
         /\ last'.status = "RESOURCE_EXHAUSTED") =>
            ~HasRoom(GarbageCollectFull(Now).m,
                     AllocatedSize(last'.op, key, value))]_vars

\* What the code does for kAsManySectorsNeeded: the call that finds no sector
\* collects one sector and looks once more; it returns RESOURCE_EXHAUSTED
\* exactly if the entry does not fit after that one collection.
C25_OneSectorCollected ==
    [][\A key \in TableKeys, value \in TableValues \cup {""} :
        (/\ initialized /\ options.gc_on_write = "kAsManySectorsNeeded"
         /\ last'.op \in {"Put", "Delete"}
         /\ last'.key = key /\ last'.value = value
         /\ AllocatedSize(last'.op, key, value) > 0) =>
            /\ last'.nerase <= 1
            /\ (last'.status = "RESOURCE_EXHAUSTED") =
                  (/\ ~HasRoom(Now, AllocatedSize(last'.op, key, value))
                   /\ ~HasRoom(GarbageCollectPartial(Now).m,
                               AllocatedSize(last'.op, key, value)))]_vars

\* C25 failure: with kAsManySectorsNeeded a Put collected one sector, returned
\* RESOURCE_EXHAUSTED, and a sector still holds bytes to recover.
C25_GaveUpAfterOneSector ==
    /\ initialized /\ options.gc_on_write = "kAsManySectorsNeeded"
    /\ last.op = "Put" /\ last.status = "RESOURCE_EXHAUSTED"
    /\ last.gc = "ok" /\ last.nerase = 1
    /\ \E s \in DOMAIN sectors : RecoverableBytes(sectors[s]) > 0
    /\ \E k \in TableKeys, v \in TableValues :
          /\ k = last.key /\ v = last.value
          /\ HasRoom(GarbageCollectFull(Now).m, EntrySizeFor(k, v))

-----------------------------------------------------------------------------
(* Tombstones under garbage collection.                                    *)

\* The key is deleted and its tombstone, at cell c, is its only entry on
\* flash.
LoneTombstone(key, c) ==
    /\ \E d \in DescriptorOf(key) :
          d.state = "kDeleted" /\ CellOf(KdAddress(d)) = c
    /\ EntriesOf(key) = {c}
    /\ EntryDeleted(flash[c])

\* A garbage collection call returned OK and erased the sector of cell c.
Collected(c) ==
    /\ last'.op \in GcCalls /\ last'.status = "OK"
    /\ flash'[c] # flash[c]

-----------------------------------------------------------------------------
(* Init over flash that holds copies of an entry.                          *)

\* The entries an image is made of: the key "a" with transaction ids 1, 2.
ImageEntries == {EntryValid("a", "x", 1), EntryValid("a", "x", 2)}

\* Bound: the number of entries of an image.
MaxImageLen == 3

\* Bound: calls that write are offered until this many ids are consumed.
MaxImageTid == 4

\* The first erased cell of the sector, NumCells if the sector is full.
FirstErasedCell(fl, sector) ==
    IF \E c \in DOMAIN fl : c \div CellsPerSector = sector /\ fl[c].t = "erased"
    THEN MinOf({c \in DOMAIN fl :
                  c \div CellsPerSector = sector /\ fl[c].t = "erased"})
    ELSE NumCells

\* The flash after the entries ws[i], ws[i + 1], ... were appended, each to
\* its sector ws[i][1]; an entry for which the sector has no room is left out.
RECURSIVE WriteImage(_, _, _)
WriteImage(fl, ws, i) ==
    IF i > Len(ws) THEN fl
    ELSE With(FirstErasedCell(fl, ws[i][1]), LAMBDA c :
            IF c = NumCells
               \/ (c + (EntrySize(ws[i][2]) \div kMinAlignmentBytes) - 1)
                     \div CellsPerSector # ws[i][1]
            THEN WriteImage(fl, ws, i + 1)
            ELSE WriteImage(PutEntry(fl, c * kMinAlignmentBytes, ws[i][2],
                                     EntrySize(ws[i][2])),
                            ws, i + 1))

Images ==
    {WriteImage([c \in 0 .. (NumCells - 1) |-> ErasedCell], ws, 1) :
        ws \in UNION {[1 .. n -> SectorIds \X ImageEntries] :
                        n \in 0 .. MaxImageLen}}

InitImage ==
    /\ partition \in Partitions
    /\ flash \in Images
    /\ sectors = <<>>
    /\ key_descriptors = <<>>
    /\ last_new_sector = NullSector
    /\ last_transaction_id = 0
    /\ initialized = FALSE
    /\ init_called = FALSE
    /\ options = DefaultOptions
    /\ last = NoCall
    /\ expect = [k \in AllKeys |-> {Absent}]
    /\ hist = [faults |-> 0, after |-> 0, budget |-> 0, clean |-> TRUE,
               torn |-> FALSE]
    /\ encoder = NoEncoder

NextImage ==
    \/ DoInit
    \/ last_transaction_id < MaxImageTid /\ DoPut("a", "x")
    \/ last_transaction_id < MaxImageTid /\ DoDelete("a")
    \/ last_transaction_id < MaxImageTid /\ DoGarbageCollectPartial

SpecImage == InitImage /\ [][NextImage]_vars

\* No two addresses of the descriptor lie in one sector, and every address
\* holds an entry that carries the descriptor's transaction id.
Redundant(kd) ==
    /\ \A i, j \in 1 .. Len(kd.addresses) :
          i # j => SectorFromAddress(kd.addresses[i])
                     # SectorFromAddress(kd.addresses[j])
    /\ \A i \in 1 .. Len(kd.addresses) :
          /\ flash[CellOf(kd.addresses[i])].t = "entry"
          /\ flash[CellOf(kd.addresses[i])].transaction_id = kd.transaction_id

\* Two copies of the newest entry of the key lie in one sector.
SameSectorCopies(key) ==
    \E c, d \in EntriesOf(key) :
        /\ c # d /\ c \div CellsPerSector = d \div CellsPerSector
        /\ flash[c].transaction_id = flash[d].transaction_id
        /\ \A e \in EntriesOf(key) :
              flash[e].transaction_id <= flash[c].transaction_id

\* C27 (redundancy invariant): after Init and after every Put, Delete and
\* relocation, no two addresses of one key descriptor lie in the same sector
\* and all addresses of a descriptor refer to entries with the descriptor's
\* transaction id; an Init that finds a copy with the same id in a sector
\* that already holds a copy does not add it and, when it runs to its end,
\* returns DATA_LOSS.
C27_Redundancy ==
    [][/\ (last'.op # "none" /\ Returned') =>
             \A i \in DOMAIN key_descriptors' : Redundant(key_descriptors[i])'
       /\ (last'.op = "Init" /\ SameSectorCopies("a")) =>
             last'.status # "OK"
       /\ (last'.op = "Init" /\ SameSectorCopies("a") /\ initialized') =>
             last'.status = "DATA_LOSS"]_vars

\* C27 case: Init found two copies of the newest entry in one sector and a
\* third in another sector; it returned DATA_LOSS and the descriptor has two
\* addresses.
C27_Witness ==
    /\ last.op = "Init" /\ last.status = "DATA_LOSS" /\ initialized
    /\ SameSectorCopies("a")
    /\ \E i \in DOMAIN key_descriptors : Len(key_descriptors[i].addresses) = 2

-----------------------------------------------------------------------------
(* The size of an entry.  Entries are constructed for partitions of        *)
(* several alignments and their headers are written to flash; size() is    *)
(* then computed from the header that is in flash.                         *)

\* partition_.alignment_bytes() of the partitions entries are sized for:
\* below, at and above the header size, multiples of 16 and not, and one
\* whose alignment_units do not fit the header's uint8_t.
SizeAlignments == {1, 16, 24, 32, 40, 64, 4096, 4112}

SizePartitions ==
    {[sector_count |-> 2, sector_size_bytes |-> 4 * Max(a, kMinAlignmentBytes),
      alignment_bytes |-> a] : a \in SizeAlignments}

SizeKeys == {"a", "ab"}

SizeValues == {"", "x", "Y", "M", "N"}

InitSize ==
    /\ partition \in SizePartitions
    /\ flash = [c \in 0 .. (NumCells - 1) |-> ErasedCell]
    /\ sectors = <<>>
    /\ key_descriptors = <<>>
    /\ last_new_sector = NullSector
    /\ last_transaction_id = 0
    /\ initialized = FALSE
    /\ init_called = FALSE
    /\ options = DefaultOptions
    /\ last = NoCall
    /\ expect = [k \in AllKeys |-> {Absent}]
    /\ hist = [faults |-> 0, after |-> 0, budget |-> 0, clean |-> TRUE,
               torn |-> FALSE]
    /\ encoder = NoEncoder

\* Entry::Valid(partition, address, format, key, value, id) followed by the
\* write of its header at the start of `sector`.
DoEntryValid(key, value, sector) ==
    /\ flash' = [c \in 0 .. (NumCells - 1) |->
                    IF c = sector * CellsPerSector
                    THEN EntryValid(key, value, 1) ELSE ErasedCell]
    /\ last' = [NoCall EXCEPT !.op = "Entry::Valid", !.key = key,
                              !.value = value, !.nwrite = 1]
    /\ UNCHANGED <<sectors, key_descriptors, last_new_sector,
                   last_transaction_id, initialized, init_called, partition,
                   options, expect, hist, encoder>>

NextSize ==
    \E key \in SizeKeys, value \in SizeValues, sector \in SectorIds :
        DoEntryValid(key, value, sector)

SpecSize == InitSize /\ [][NextSize]_vars

\* The entry headers that are in flash.
HeadersInFlash == {flash[c] : c \in {d \in DOMAIN flash : flash[d].t = "entry"}}

\* C28: for every partition alignment, key length and value length, size()
\* of the entry written, computed from the header's alignment_units, equals
\* the static Entry::size, AlignUp(16 + K + V, max(partition alignment, 16)),
\* and alignment_bytes() of the header is max(partition alignment, 16).
C28_EntrySize ==
    \A e \in HeadersInFlash :
        /\ EntrySize(e) = EntrySizeFor(e.key, e.val)
        /\ EntryAlignmentBytes(e) = Max(PartitionAlignmentBytes, kMinAlignmentBytes)

\* The alignments whose alignment_units round-trip: at most 16, or a multiple
\* of 16 up to 256 * 16.
RoundTrips(alignment_bytes) ==
    \/ alignment_bytes <= kMinAlignmentBytes
    \/ /\ alignment_bytes % 16 = 0
       /\ alignment_bytes <= 256 * 16

\* C28, on the alignments that round-trip: size() of the written entry
\* equals the static Entry::size and alignment_bytes() equals
\* max(partition alignment, 16); on every other alignment alignment_bytes()
\* differs from it.
C28_EntrySizeRoundTrips ==
    \A e \in HeadersInFlash :
        IF RoundTrips(PartitionAlignmentBytes)
        THEN /\ EntrySize(e) = EntrySizeFor(e.key, e.val)
             /\ EntryAlignmentBytes(e) =
                    Max(PartitionAlignmentBytes, kMinAlignmentBytes)
        ELSE EntryAlignmentBytes(e) #
                    Max(PartitionAlignmentBytes, kMinAlignmentBytes)

\* An entry was written to a partition aligned to 24 bytes whose size() is
\* larger than the static Entry::size that the fit check used.
C28_SizesDiffer ==
    /\ PartitionAlignmentBytes = 24
    /\ \E e \in HeadersInFlash : EntrySize(e) > EntrySizeFor(e.key, e.val)

-----------------------------------------------------------------------------
(* Storage statistics.                                                     *)

\* Some sector descriptor is empty (found_empty_sector at the end of the loop).
FoundEmptySector == \E s \in DOMAIN sectors : SectorEmpty(sectors[s])

\* in_use + reclaimable + writable, plus the empty sector that is not counted.
StatsTotal ==
    GetStorageStats.in_use_bytes + GetStorageStats.reclaimable_bytes
        + GetStorageStats.writable_bytes
        + (IF FoundEmptySector THEN SectorSizeBytes ELSE 0)

\* The three statistics are the sums over the sector descriptors, and none of
\* the size_t sums has wrapped.
StatsAreSums ==
    /\ GetStorageStats.in_use_bytes =
          SumOver([s \in DOMAIN sectors |-> sectors[s].valid_bytes], DOMAIN sectors)
    /\ GetStorageStats.reclaimable_bytes =
          SumOver([s \in DOMAIN sectors |->
                      SectorSizeBytes - sectors[s].valid_bytes
                                      - sectors[s].writable_bytes],
                  DOMAIN sectors)
    /\ GetStorageStats.writable_bytes =
          SumOver([s \in DOMAIN sectors |-> sectors[s].writable_bytes],
                  DOMAIN sectors)
          - (IF FoundEmptySector THEN SectorSizeBytes ELSE 0)
    /\ \A s \in DOMAIN sectors :
          /\ sectors[s].valid_bytes \in 0 .. SectorSizeBytes
          /\ sectors[s].writable_bytes \in 0 .. SectorSizeBytes
          /\ RecoverableBytes(sectors[s]) \in 0 .. SectorSizeBytes

\* Init() was called on a partition in which every byte is erased.
InitOfErasedPartition ==
    /\ last'.op = "Init"
    /\ \A c \in DOMAIN flash : flash[c].t = "erased"

\* After Init of an all-erased partition: size() == 0, transaction_count()
\* == 0 and writable_bytes == (N - 1) * sector_size.
ErasedPartitionStats ==
    InitOfErasedPartition =>
        /\ last'.status = "OK"
        /\ Size(key_descriptors') = 0
        /\ last_transaction_id' = 0
        /\ GetStorageStats'.writable_bytes = (SectorCount - 1) * SectorSizeBytes
        /\ GetStorageStats'.in_use_bytes = 0
        /\ GetStorageStats'.reclaimable_bytes = 0

\* C29: in every state in_use_bytes is the sum of valid_bytes over all
\* sectors, reclaimable_bytes the sum of recoverable_bytes and writable_bytes
\* the sum of writable_bytes less one sector_size when a sector is empty, so
\* that in_use + reclaimable + writable + (sector_size if a sector is empty)
\* = sector_count * sector_size of the partition; and after Init of an
\* all-erased partition of N sectors size() == 0, transaction_count() == 0
\* and writable_bytes == (N - 1) * sector_size.
C29_StorageStats ==
    /\ [](StatsAreSums /\ StatsTotal = SectorCount * SectorSizeBytes)
    /\ [][ErasedPartitionStats]_vars

\* C29, from the first Init() on: the statistics are the sums over the sector
\* descriptors, which Init() sizes to the partition; before the first Init()
\* there is no sector descriptor and the three statistics are 0.  After Init
\* of an all-erased partition of N sectors size() == 0, transaction_count()
\* == 0 and writable_bytes == (N - 1) * sector_size.
C29_StorageStatsOnceInit ==
    /\ [](/\ StatsAreSums
          /\ StatsTotal = Cardinality(DOMAIN sectors) * SectorSizeBytes
          /\ IF init_called THEN Cardinality(DOMAIN sectors) = SectorCount
                            ELSE Cardinality(DOMAIN sectors) = 0 /\ StatsTotal = 0)
    /\ [][ErasedPartitionStats]_vars

\* Statistics of a store that holds entries, stale bytes and free space.
C29_Witness ==
    /\ initialized
    /\ GetStorageStats.in_use_bytes > 0
    /\ GetStorageStats.reclaimable_bytes > 0
    /\ GetStorageStats.writable_bytes > 0
    /\ FoundEmptySector

-----------------------------------------------------------------------------
(* The protobuf NestedEncoder.  The encoder writes fields into a buffer of *)
(* fixed size; cursor counts the bytes written.  The bytes themselves are  *)
(* not modelled, only how many there are.                                  *)

\* The buffers of the encoders (std::byte encode_buffer[12] and a shorter one).
EncoderBufferSizes == {6, 12}

\* NestedEncoder<max_depth, max_blobs>.
EncoderLimits == {<<2, 10>>, <<5, 3>>}

\* Field numbers passed to the encoder: 1, 2 and 16 are valid (16 takes a key
\* of two bytes); 0, 19091 and 2^29 (the least number that is too large, in
\* place of 1 << 31) are not.
FieldNumbers == {0, 1, 2, 16, 19091, 536870912}

\* Bytes of a field after its key: a small varint, a fixed32 or float, a
\* fixed64.
FieldBytes == {1, 4, 8}

\* A field number is in 1 .. 2^29 - 1 and outside the reserved range.
ValidFieldNumber(field_number) ==
    /\ field_number >= 1
    /\ field_number < 536870912
    /\ field_number \notin 19000 .. 19999

\* The number of bytes of the base-128 varint of value.
RECURSIVE VarintSize(_)
VarintSize(value) == IF value < 128 THEN 1 ELSE 1 + VarintSize(value \div 128)

\* The key of a field: the varint of (field_number << 3 | wire_type).
FieldKeySize(field_number) == VarintSize(field_number * 8)

RemainingSize(e) == e.buffer_size - e.cursor

\* The call failed with status: the status is kept and the cursor stays where
\* it was before the call.
EncoderFails(e, status) ==
    [e |-> [e EXCEPT !.encode_status = status], status |-> status]

\* A Write that looks at the arguments and the space but not at the status
\* kept from an earlier call.
WriteFieldIgnoresStatus(e, field_number, bytes) ==
    IF ~ValidFieldNumber(field_number)
    THEN EncoderFails(e, "INVALID_ARGUMENT")
    ELSE IF FieldKeySize(field_number) + bytes > RemainingSize(e)
    THEN EncoderFails(e, "RESOURCE_EXHAUSTED")
    ELSE [e |-> [e EXCEPT !.cursor = @ + FieldKeySize(field_number) + bytes,
                          !.encode_status = "OK"],
          status |-> "OK"]

\* WriteUint32, WriteSint32, WriteFixed64, WriteFloat, WriteString, WriteBool:
\* the key and `bytes` bytes.
WriteField(e, field_number, bytes) ==
    IF e.encode_status # "OK"
    THEN [e |-> e, status |-> e.encode_status]
    ELSE IF ~ValidFieldNumber(field_number)
    THEN EncoderFails(e, "INVALID_ARGUMENT")
    ELSE IF FieldKeySize(field_number) + bytes > RemainingSize(e)
    THEN EncoderFails(e, "RESOURCE_EXHAUSTED")
    ELSE [e |-> [e EXCEPT !.cursor = @ + FieldKeySize(field_number) + bytes],
          status |-> "OK"]

\* Push(field_number): opens a nested message, which takes the key and a
\* size byte.
EncoderPush(e, field_number) ==
    IF e.encode_status # "OK"
    THEN [e |-> e, status |-> e.encode_status]
    ELSE IF e.blob_count = e.max_blobs \/ e.depth = e.max_depth
    THEN EncoderFails(e, "RESOURCE_EXHAUSTED")
    ELSE IF ~ValidFieldNumber(field_number)
    THEN EncoderFails(e, "INVALID_ARGUMENT")
    ELSE IF FieldKeySize(field_number) + 1 > RemainingSize(e)
    THEN EncoderFails(e, "RESOURCE_EXHAUSTED")
    ELSE [e |-> [e EXCEPT !.cursor = @ + FieldKeySize(field_number) + 1,
                          !.depth = @ + 1, !.blob_count = @ + 1],
          status |-> "OK"]

\* Pop(): closes the innermost nested message.
EncoderPop(e) ==
    IF e.encode_status # "OK"
    THEN [e |-> e, status |-> e.encode_status]
    ELSE [e |-> [e EXCEPT !.depth = @ - 1], status |-> "OK"]

\* Encode(&encoded): the status and the size of the span.
EncoderEncode(e) ==
    IF e.encode_status # "OK"
    THEN [e |-> [e EXCEPT !.encoded_size = 0], status |-> e.encode_status]
    ELSE [e |-> [e EXCEPT !.encoded_size = e.cursor], status |-> "OK"]

\* Clear()
EncoderClear(e) ==
    [e |-> NewEncoder(e.buffer_size, e.max_depth, e.max_blobs), status |-> "OK"]

InitEncoder ==
    /\ partition = [sector_count |-> 2, sector_size_bytes |-> 96,
                    alignment_bytes |-> 16]
    /\ flash = [c \in 0 .. (NumCells - 1) |-> ErasedCell]
    /\ sectors = <<>>
    /\ key_descriptors = <<>>
    /\ last_new_sector = NullSector
    /\ last_transaction_id = 0
    /\ initialized = FALSE
    /\ init_called = FALSE
    /\ options = DefaultOptions
    /\ last = NoCall
    /\ expect = [k \in AllKeys |-> {Absent}]
    /\ hist = [faults |-> 0, after |-> 0, budget |-> 0, clean |-> TRUE,
               torn |-> FALSE]
    /\ encoder \in {NewEncoder(size, limits[1], limits[2]) :
                        size \in EncoderBufferSizes, limits \in EncoderLimits}

\* The encoder call op returned r = [e, status].
EncoderCall(op, r) ==
    /\ encoder' = r.e
    /\ last' = [NoCall EXCEPT !.op = op, !.status = r.status]
    /\ UNCHANGED <<flash, sectors, key_descriptors, last_new_sector,
                   last_transaction_id, initialized, init_called, partition,
                   options, expect, hist>>

DoWriteField(field_number, bytes) ==
    EncoderCall("Write", WriteField(encoder, field_number, bytes))

DoEncoderPush(field_number) ==
    EncoderCall("Push", EncoderPush(encoder, field_number))

\* Pop() is called with a nested message open, or in the error state.
DoEncoderPop ==
    /\ encoder.depth > 0 \/ encoder.encode_status # "OK"
    /\ EncoderCall("Pop", EncoderPop(encoder))

\* Encode() is called with every nested message closed, or in the error state.
DoEncoderEncode ==
    /\ encoder.depth = 0 \/ encoder.encode_status # "OK"
    /\ EncoderCall("Encode", EncoderEncode(encoder))

DoEncoderClear == EncoderCall("Clear", EncoderClear(encoder))

NextEncoder ==
    \/ \E field_number \in FieldNumbers, bytes \in FieldBytes :
          DoWriteField(field_number, bytes)
    \/ \E field_number \in FieldNumbers : DoEncoderPush(field_number)
    \/ DoEncoderPop
    \/ DoEncoderEncode
    \/ DoEncoderClear

SpecEncoder == InitEncoder /\ [][NextEncoder]_vars

EncoderCalls == {"Write", "Push", "Pop", "Encode"}

\* C30: the error state of the NestedEncoder is sticky.  A Write or Push that
\* fails returns RESOURCE_EXHAUSTED or INVALID_ARGUMENT and leaves the cursor
\* where it was (the bytes of the failed field are rolled back); from then on
\* every Write, Push and Pop returns that error and writes nothing, and
\* Encode returns it with an empty span; Clear() ends the error state.
C30_StickyError ==
    [][/\ (encoder.encode_status = "OK" /\ last'.op \in {"Write", "Push"}
             /\ last'.status # "OK")
            => /\ last'.status \in {"RESOURCE_EXHAUSTED", "INVALID_ARGUMENT"}
               /\ encoder'.encode_status = last'.status
               /\ encoder'.cursor = encoder.cursor
               /\ encoder'.depth = encoder.depth
       /\ (encoder.encode_status # "OK" /\ last'.op \in EncoderCalls)
            => /\ last'.status = encoder.encode_status
               /\ encoder'.encode_status = encoder.encode_status
               /\ encoder'.cursor = encoder.cursor
               /\ encoder'.depth = encoder.depth
               /\ encoder'.blob_count = encoder.blob_count
               /\ last'.op = "Encode" => encoder'.encoded_size = 0
       /\ (encoder.encode_status = "OK" /\ last'.op \in EncoderCalls
             /\ last'.status = "OK")
            => encoder'.encode_status = "OK"
       /\ last'.op = "Clear"
            => encoder'.encode_status = "OK" /\ encoder'.cursor = 0]_vars

\* EncodeInsufficientSpace: in a buffer of 12 bytes two fields of 2 bytes
\* were written, a field of 9 bytes failed, and Encode returned
\* RESOURCE_EXHAUSTED with an empty span.
C30_Witness ==
    /\ encoder.buffer_size = 12
    /\ encoder.cursor = 4
    /\ encoder.encode_status = "RESOURCE_EXHAUSTED"
    /\ last.op = "Encode"
    /\ last.status = "RESOURCE_EXHAUSTED"
    /\ encoder.encoded_size = 0

-----------------------------------------------------------------------------
(* Garbage collection of a sector.                                         *)

\* The call erased sector s: a cell of s that held bytes is erased after it.
SectorErasedByCall(s) ==
    \E c \in DOMAIN flash :
        /\ c \div CellsPerSector = s
        /\ flash[c].t # "erased"
        /\ flash'[c].t = "erased"

\* Some address of some key descriptor of kds lies in sector s.
DescriptorInSector(kds, s) ==
    \E i \in 1 .. Len(kds) : s \in SectorsOf(kds[i].addresses)

\* Every address of every key descriptor of kds is that of a complete entry
\* in fl with the descriptor's hash and transaction id.
DescriptorsPointToEntries(kds, fl) ==
    \A i \in 1 .. Len(kds) : \A j \in 1 .. Len(kds[i].addresses) :
        With(fl[CellOf(kds[i].addresses[j])], LAMBDA e :
            /\ e.t = "entry" /\ e.ok
            /\ Hash(e.key) = kds[i].hash
            /\ e.transaction_id = kds[i].transaction_id)

\* The hash and state of each descriptor, in table order (a relocated entry
\* is written with a new transaction id).
DescriptorIdentities(kds) ==
    [i \in 1 .. Len(kds) |-> <<kds[i].hash, kds[i].state>>]

\* The store as it is, with 16 valid bytes counted in sector s that no key
\* descriptor accounts for: bytes that the relocation pass cannot move.
WithStrayValidBytes(s) ==
    [Now EXCEPT !.sectors = AddValidBytes(@, s, kMinAlignmentBytes)]

\* GarbageCollectSector on a sector in which valid bytes remain after the
\* relocation pass does not return OK and does not erase; it returns INTERNAL
\* when the relocations themselves succeeded.
ValidBytesRemainNoErase ==
    \A s \in DOMAIN sectors :
        With(GarbageCollectSector(WithStrayValidBytes(s), s), LAMBDA r :
            /\ r.status # "OK"
            /\ r.m.nerase = 0
            /\ \A c \in DOMAIN flash :
                  c \div CellsPerSector = s => r.m.flash[c] = flash[c]
            /\ r.m.sectors[s].valid_bytes = 0 + kMinAlignmentBytes
                  => r.status = "INTERNAL")

\* C31: garbage collection never erases live data.  A GarbageCollectPartial
\* that erased its victim leaves no key descriptor address in it; when it
\* returns OK the victim has writable_bytes == sector_size, valid_bytes == 0
\* and is erased; a garbage collection that returns INTERNAL has erased
\* nothing; and after any garbage collection call that returned, the key
\* descriptors are those of before the call and each points to a complete
\* entry of its key on flash.
C31_GcKeepsLiveData ==
    []ValidBytesRemainNoErase /\
    [][(last'.op \in GcCalls /\ ~last'.ub
          /\ last'.status \notin {"POWER_LOSS", "CRASH"})
        => /\ DescriptorIdentities(key_descriptors')
                = DescriptorIdentities(key_descriptors)
           /\ DescriptorsPointToEntries(key_descriptors, flash)
                => DescriptorsPointToEntries(key_descriptors', flash')
           /\ last'.status = "INTERNAL"
                => /\ last'.nerase = 0
                   /\ \A s \in DOMAIN sectors : ~SectorErasedByCall(s)
           /\ last'.op = "GarbageCollectPartial"
                => \A s \in DOMAIN sectors :
                     /\ SectorErasedByCall(s)
                          => /\ s = FindSectorToGarbageCollect(sectors)
                             /\ ~DescriptorInSector(key_descriptors', s)
                     /\ (last'.status = "OK"
                           /\ s = FindSectorToGarbageCollect(sectors))
                          => /\ sectors'[s].writable_bytes = SectorSizeBytes
                             /\ sectors'[s].valid_bytes = 0
                             /\ \A c \in DOMAIN flash :
                                   c \div CellsPerSector = s
                                     => flash'[c].t = "erased"]_vars

\* A GarbageCollectPartial returned OK, erased a sector that held a live
\* entry, and moved that entry to another sector.
C31_Witness ==
    /\ last.op = "GarbageCollectPartial"
    /\ last.status = "OK"
    /\ last.nerase = 1
    /\ last.nreloc > 0
    /\ Len(key_descriptors) > 0

-----------------------------------------------------------------------------
(* The sector allocator.                                                   *)

\* The sizes asked of the allocator: the sizes of entries, up to a sector.
AllocSizes == {n \in 1 .. SectorSizeBytes : n % kMinAlignmentBytes = 0} \ {16}

FindModes == {"kAppendEntry", "kGarbageCollect"}

\* The store has sector descriptors and last_new_sector_ points at one.
AllocatorUsable == DOMAIN sectors # {} /\ last_new_sector # NullSector

\* FindSectorWithSpace returned r for size, find_mode and sectors_to_skip:
\* a sector it returned is not one to skip and has the space; in kAppendEntry
\* mode an empty sector is returned only if another empty sector that is not
\* to be skipped exists.
AllocationRespectsReserve(r, size, find_mode, sectors_to_skip) ==
    (r.status = "OK" /\ r.sector # NullSector)
        => /\ r.sector \notin sectors_to_skip
           /\ sectors[r.sector].writable_bytes >= size
           /\ (find_mode = "kAppendEntry" /\ SectorEmpty(sectors[r.sector]))
                => \E other \in DOMAIN sectors \ (sectors_to_skip \cup {r.sector}) :
                      SectorEmpty(sectors[other])

AllocatorRespectsReserve ==
    AllocatorUsable =>
        \A size \in AllocSizes, find_mode \in FindModes,
           sectors_to_skip \in SUBSET SectorIds :
            AllocationRespectsReserve(
                FindSectorWithSpace(Now, size, find_mode, sectors_to_skip),
                size, find_mode, sectors_to_skip)

\* A garbage collection call moved the entry of descriptor i: its new copy is
\* in a sector that held no copy of the key, and, for GarbageCollectPartial,
\* not in the sector that was collected.
RelocationAvoidsCopies ==
    (last'.op \in GcCalls /\ last'.status \notin {"POWER_LOSS", "CRASH"})
      => \A i \in 1 .. Len(key_descriptors) :
            key_descriptors'[i].addresses # key_descriptors[i].addresses
              => /\ SectorsOf(key_descriptors'[i].addresses)
                       \cap SectorsOf(key_descriptors[i].addresses) = {}
                 /\ last'.op = "GarbageCollectPartial"
                      => FindSectorToGarbageCollect(sectors)
                            \notin SectorsOf(key_descriptors'[i].addresses)

\* C32: FindSectorWithSpace never returns a sector of the set to avoid nor a
\* sector with fewer writable bytes than the size asked for; in kAppendEntry
\* mode it returns an empty sector only if another empty sector outside the
\* set exists (in kGarbageCollect mode it may return the only empty sector);
\* so a relocation never writes the new copy into the sector being collected
\* or into a sector that already holds a copy of the key.
C32_AllocatorReserve ==
    []AllocatorRespectsReserve /\ [][RelocationAvoidsCopies]_vars

\* A garbage collection has relocated an entry, and one sector is empty: for
\* an entry of a whole sector kGarbageCollect mode returns that sector while
\* kAppendEntry mode returns RESOURCE_EXHAUSTED.
C32_Witness ==
    /\ last.op \in GcCalls /\ last.status = "OK" /\ last.nreloc > 0
    /\ Cardinality({s \in DOMAIN sectors : SectorEmpty(sectors[s])}) = 1
    /\ With(FindSectorWithSpace(Now, SectorSizeBytes, "kGarbageCollect", {}),
            LAMBDA r : r.status = "OK" /\ r.sector # NullSector
                        /\ SectorEmpty(sectors[r.sector]))
    /\ FindSectorWithSpace(Now, SectorSizeBytes, "kAppendEntry", {}).status
          = "RESOURCE_EXHAUSTED"

\* The sector the loop of FindSectorWithSpace looks at in its j-th iteration.
RingSector(j) == (last_new_sector + j) % Cardinality(DOMAIN sectors)

\* The sets of sectors to skip that a relocation passes: the sectors that
\* hold a copy of the key (one copy per key), or none for a new entry.
SkipSets == {skip \in SUBSET SectorIds : Cardinality(skip) <= 1}

\* Sector s is not to be skipped, holds data and has room for size (tier 1).
PartialSectorFits(s, size, find_mode, sectors_to_skip) ==
    /\ s \notin sectors_to_skip
    /\ ~SectorEmpty(sectors[s])
    /\ sectors[s].writable_bytes >= size
    /\ find_mode = "kAppendEntry" \/ RecoverableBytes(sectors[s]) = 0

\* Sector s is empty and not to be skipped (tier 2).
EmptySectorUsable(s, sectors_to_skip) ==
    s \notin sectors_to_skip /\ SectorEmpty(sectors[s])

\* The first empty sector may be taken: always in kGarbageCollect mode, in
\* kAppendEntry mode when a second empty sector exists.
ReserveAllows(find_mode, sectors_to_skip) ==
    \/ find_mode = "kGarbageCollect"
    \/ Cardinality({s \in DOMAIN sectors :
                        EmptySectorUsable(s, sectors_to_skip)}) >= 2

\* The j-th sector of the ring is the first one for which Fits holds.
FirstInRing(j, Fits(_)) ==
    Fits(RingSector(j)) /\ \A i \in 1 .. (j - 1) : ~Fits(RingSector(i))

\* r is what the allocator returns when a sector holding data fits, or when
\* none does and an empty sector may be taken.
AllocatesInRingOrder(r, size, find_mode, sectors_to_skip) ==
    \A j \in 1 .. Cardinality(DOMAIN sectors) :
        /\ FirstInRing(j, LAMBDA s :
                PartialSectorFits(s, size, find_mode, sectors_to_skip))
             => /\ r.status = "OK"
                /\ r.sector = RingSector(j)
                /\ r.m = Now
        /\ (/\ \A s \in DOMAIN sectors :
                  ~PartialSectorFits(s, size, find_mode, sectors_to_skip)
            /\ ReserveAllows(find_mode, sectors_to_skip)
            /\ FirstInRing(j, LAMBDA s : EmptySectorUsable(s, sectors_to_skip)))
             => /\ r.status = "OK"
                /\ r.sector = RingSector(j)
                /\ r.m = [Now EXCEPT !.lns = RingSector(j)]

\* No sector holding data fits and no empty sector may be taken.
NothingQualifies(size, find_mode, sectors_to_skip) ==
    /\ \A s \in DOMAIN sectors :
          ~PartialSectorFits(s, size, find_mode, sectors_to_skip)
    /\ \/ ~ReserveAllows(find_mode, sectors_to_skip)
       \/ \A s \in DOMAIN sectors : ~EmptySectorUsable(s, sectors_to_skip)

\* C33: FindSectorWithSpace examines the sectors in ring order from one past
\* last_new_sector (last_new_sector itself last) and returns the first sector
\* holding data with writable_bytes >= size (in kGarbageCollect mode also
\* with no recoverable bytes); only if there is none it returns the first
\* empty sector in that order; last_new_sector becomes the returned sector
\* exactly when an empty sector is returned; when nothing qualifies it
\* returns RESOURCE_EXHAUSTED and changes no state.
C33_AllocatorOrder ==
    AllocatorUsable =>
        \A size \in AllocSizes, find_mode \in FindModes, sectors_to_skip \in SkipSets :
            With(FindSectorWithSpace(Now, size, find_mode, sectors_to_skip),
                 LAMBDA r :
                /\ AllocatesInRingOrder(r, size, find_mode, sectors_to_skip)
                /\ NothingQualifies(size, find_mode, sectors_to_skip)
                     => r.status = "RESOURCE_EXHAUSTED" /\ r.m = Now)

\* C33 as the code has it: the order and last_new_sector are as stated; when
\* nothing qualifies, kAppendEntry mode returns RESOURCE_EXHAUSTED and changes
\* no state, while kGarbageCollect mode, which then has met no empty sector,
\* returns OK with no sector and sets last_new_sector to null.
C33_AllocatorOrderNullInGc ==
    AllocatorUsable =>
        \A size \in AllocSizes, find_mode \in FindModes, sectors_to_skip \in SkipSets :
            With(FindSectorWithSpace(Now, size, find_mode, sectors_to_skip),
                 LAMBDA r :
                /\ AllocatesInRingOrder(r, size, find_mode, sectors_to_skip)
                /\ NothingQualifies(size, find_mode, sectors_to_skip)
                     => IF find_mode = "kAppendEntry"
                        THEN r.status = "RESOURCE_EXHAUSTED" /\ r.m = Now
                        ELSE /\ r.status = "OK"
                             /\ r.sector = NullSector
                             /\ r.m = [Now EXCEPT !.lns = NullSector])

\* Nothing qualifies for a relocation out of sector s of an entry that is
\* there: every other sector is full or has recoverable bytes.
C33_NothingForRelocation ==
    /\ AllocatorUsable
    /\ \E s \in DOMAIN sectors :
          /\ DescriptorInSector(key_descriptors, s)
          /\ NothingQualifies(32, "kGarbageCollect", {s})
          /\ FindSectorWithSpace(Now, 32, "kGarbageCollect", {s}).status = "OK"

-----------------------------------------------------------------------------
(* The choice of the sector to garbage collect.                            *)

\* The sectors with stale bytes and no valid entry.
StaleOnlySectors ==
    {s \in DOMAIN sectors :
        sectors[s].valid_bytes = 0 /\ RecoverableBytes(sectors[s]) > 0}

\* The sectors the victim is chosen among: those with only stale bytes if
\* there is one, else all sectors with recoverable bytes.
VictimPool ==
    IF StaleOnlySectors # {} THEN StaleOnlySectors
    ELSE {s \in DOMAIN sectors : RecoverableBytes(sectors[s]) > 0}

\* victim is the sector of the pool with the most recoverable bytes, the one
\* of lowest index among equals; it is no sector exactly when the pool is
\* empty.
IsVictim(victim) ==
    /\ victim = NullSector <=> VictimPool = {}
    /\ victim # NullSector
         => /\ victim \in VictimPool
            /\ \A s \in VictimPool :
                  /\ RecoverableBytes(sectors[s]) <= RecoverableBytes(sectors[victim])
                  /\ RecoverableBytes(sectors[s]) = RecoverableBytes(sectors[victim])
                       => victim <= s

\* A GarbageCollectPartial called when no sector has recoverable bytes
\* returns OK and changes nothing.
NothingToCollect ==
    (/\ last'.op = "GarbageCollectPartial"
     /\ \A s \in DOMAIN sectors : RecoverableBytes(sectors[s]) = 0)
      => /\ last'.status = "OK"
         /\ last'.nerase = 0 /\ last'.nwrite = 0 /\ last'.nreloc = 0
         /\ UNCHANGED <<flash, sectors, key_descriptors, last_new_sector,
                        last_transaction_id, initialized>>

\* C34: FindSectorToGarbageCollect returns, if a sector has valid_bytes == 0
\* and recoverable_bytes > 0, the one with the largest recoverable_bytes
\* among those (lowest index on ties); otherwise the sector with the largest
\* recoverable_bytes of all; and no sector exactly when every sector has
\* recoverable_bytes == 0, in which case GarbageCollectPartial returns OK and
\* changes nothing.
C34_GcVictim ==
    [](IsVictim(FindSectorToGarbageCollect(sectors))) /\ [][NothingToCollect]_vars

\* A sector has stale bytes only, another has a valid entry and at least as
\* many recoverable bytes; the victim is the sector with stale bytes only.
C34_Witness ==
    /\ StaleOnlySectors # {}
    /\ FindSectorToGarbageCollect(sectors) \in StaleOnlySectors
    /\ \E s \in DOMAIN sectors :
          /\ sectors[s].valid_bytes > 0
          /\ RecoverableBytes(sectors[s]) >=
                RecoverableBytes(sectors[FindSectorToGarbageCollect(sectors)])

-----------------------------------------------------------------------------
(* Init over flash that holds several versions of keys, in any order.      *)

\* The entries an image is made of: "a" written with id 1 and deleted with
\* id 3, "b" written with id 2.
ScanEntries ==
    {EntryValid("a", "x", 1), EntryValid("b", "x", 2), EntryTombstone("a", 3)}

\* Bound: the number of entries of an image.
MaxScanLen == 3

ScanImages ==
    {WriteImage([c \in 0 .. (NumCells - 1) |-> ErasedCell], ws, 1) :
        ws \in UNION {[1 .. n -> SectorIds \X ScanEntries] :
                        n \in 0 .. MaxScanLen}}

InitScan ==
    /\ partition \in Partitions
    /\ flash \in ScanImages
    /\ sectors = <<>>
    /\ key_descriptors = <<>>
    /\ last_new_sector = NullSector
    /\ last_transaction_id = 0
    /\ initialized = FALSE
    /\ init_called = FALSE
    /\ options = DefaultOptions
    /\ last = NoCall
    /\ expect = [k \in AllKeys |-> {Absent}]
    /\ hist = [faults |-> 0, after |-> 0, budget |-> 0, clean |-> TRUE,
               torn |-> FALSE]
    /\ encoder = NoEncoder

NextScan == DoInit

SpecScan == InitScan /\ [][NextScan]_vars

\* The largest transaction id among the complete entries of key on flash.
NewestId(key) ==
    CHOOSE id \in {flash[c].transaction_id : c \in EntriesOf(key)} :
        \A c \in EntriesOf(key) : flash[c].transaction_id <= id

\* Descriptor kd is that of the newest entries of key: it carries their id,
\* each address is that of an entry of the key with that id, and its state
\* is that of the entry.
DescribesNewest(kd, key) ==
    /\ kd.transaction_id = NewestId(key)
    /\ \A j \in 1 .. Len(kd.addresses) :
          With(CellOf(kd.addresses[j]), LAMBDA c :
            /\ c \in EntriesOf(key)
            /\ kd.addresses[j] = c * kMinAlignmentBytes
            /\ flash[c].transaction_id = kd.transaction_id
            /\ KdDeleted(kd) <=> EntryDeleted(flash[c]))

\* The (descriptor, address) index pairs whose address lies in sector s.
AddressesIn(s) ==
    {p \in (1 .. Len(key_descriptors)) \X (1 .. MaxScanLen + 1) :
        /\ p[2] <= Len(key_descriptors[p[1]].addresses)
        /\ SectorFromAddress(key_descriptors[p[1]].addresses[p[2]]) = s}

\* valid_bytes of each sector is the size of the entries that the descriptors
\* point to in it: older entries contribute nothing.
ValidBytesOfDescriptors ==
    \A s \in DOMAIN sectors :
        sectors[s].valid_bytes =
            SumOver([p \in AddressesIn(s) |->
                        EntrySize(flash[CellOf(
                            key_descriptors[p[1]].addresses[p[2]])])],
                    AddressesIn(s))

\* The index of the first descriptor that carries the largest id.
NewestDescriptor ==
    CHOOSE i \in 1 .. Len(key_descriptors) :
        /\ \A j \in 1 .. Len(key_descriptors) :
              key_descriptors[j].transaction_id <= key_descriptors[i].transaction_id
        /\ \A j \in 1 .. (i - 1) :
              key_descriptors[j].transaction_id < key_descriptors[i].transaction_id

\* last_transaction_id and last_new_sector are those of the newest descriptor.
SeededFromNewest ==
    IF Len(key_descriptors) = 0
    THEN last_transaction_id = 0 /\ last_new_sector = 0
    ELSE With(key_descriptors[NewestDescriptor], LAMBDA kd :
            /\ last_transaction_id = kd.transaction_id
            /\ last_new_sector =
                  SectorFromAddress(kd.addresses[Len(kd.addresses)]))

LargestIdSeeded ==
    IF Len(key_descriptors) = 0 THEN last_transaction_id = 0
    ELSE last_transaction_id = key_descriptors[NewestDescriptor].transaction_id

-----------------------------------------------------------------------------
(* Garbage collection on write.                                            *)

\* The faults that can hit a call, whatever its length.
AnyFault ==
    {NoFault}
    \cup {[at |-> at, kind |-> kind, n |-> n] :
            at \in 1 .. MaxFaultAt, kind \in FaultKinds, n \in FaultBytes}

\* What one GarbageCollectPartial does to the store as it is, undisturbed or
\* hit by a fault.
GcAlone ==
    {GarbageCollectPartial(Machine(fault, ub)) :
        fault \in AnyFault, ub \in UbOutcomes}

\* The call changed the store as one GarbageCollectPartial that ended as
\* `ended` ("ok" or "failed") does and, when that failed, returned its status:
\* nothing else was written.
OnlyGcActed(ended) ==
    \E g \in GcAlone :
        /\ ~g.m.halted
        /\ g.m.flash = flash'
        /\ g.m.sectors = sectors'
        /\ g.m.kds = key_descriptors'
        /\ g.m.tid = last_transaction_id'
        /\ g.m.lns = last_new_sector'
        /\ IF ended = "ok" THEN g.status = "OK"
           ELSE g.status # "OK" /\ g.status = last'.status

-----------------------------------------------------------------------------
(* Power loss during garbage collection.                                   *)

\* The Init that follows on the flash as it is.
InitAgain == KvsInit(Now)

\* An Init that returned r = [m, status] completed with the store
\* initialized.
InitCompleted(r) == ~r.m.halted /\ r.m.initialized

\* Power was lost during the last call, a GarbageCollectPartial or a
\* GarbageCollectFull.
PowerLostInGc == last.op \in GcCalls /\ last.status = "POWER_LOSS"

\* C37: when power is lost at any point of a GarbageCollectPartial or a
\* GarbageCollectFull (during or between relocation writes, before the erase
\* or after it), the following Init completes with the store initialized and
\* Get of every key returns what it returned before the garbage collection.
C37_PowerLossInGc ==
    [][(initialized /\ PowerLostInGc')
          => \A r \in {InitAgain'} :
                /\ InitCompleted(r)
                /\ \A k \in Keys : Outcome(r.m, k) = Outcome(Now, k)]_vars

\* C37, for the Inits that do not reach the null sector of the allocator:
\* after a power loss during a garbage collection the following Init either
\* dereferences the null sector FindSectorWithSpace returned, or completes
\* with the store initialized and every key's value as before the garbage
\* collection.
C37_PowerLossInGcUnlessNullSector ==
    [][(initialized /\ PowerLostInGc')
          => \A r \in {InitAgain'} :
                \/ r.m.ubhit
                \/ /\ InitCompleted(r)
                   /\ \A k \in Keys : Outcome(r.m, k) = Outcome(Now, k)]_vars

\* Power was lost in a garbage collection after a relocation and the
\* following Init completes.
C37_Witness ==
    /\ PowerLostInGc
    /\ last.nreloc >= 1
    /\ InitCompleted(InitAgain)

-----------------------------------------------------------------------------
(* Garbage collection on a store that is not initialized.                  *)

\* Options under which Init succeeds, under which the descriptor table is
\* too small for the keys on flash, and under which the sector table is too
\* small for the partition.
UninitOptions ==
    {DefaultOptions,
     [DefaultOptions EXCEPT !.max_entries = 1],
     [DefaultOptions EXCEPT !.max_usable_sectors = 1]}

InitUninit ==
    /\ partition \in Partitions
    /\ flash \in ScanImages
    /\ sectors = <<>>
    /\ key_descriptors = <<>>
    /\ last_new_sector = NullSector
    /\ last_transaction_id = 0
    /\ initialized = FALSE
    /\ init_called = FALSE
    /\ options \in UninitOptions
    /\ last = NoCall
    /\ expect = [k \in AllKeys |-> {Absent}]
    /\ hist = [faults |-> 0, after |-> 0, budget |-> MaxFaults, clean |-> TRUE,
               torn |-> FALSE]
    /\ encoder = NoEncoder

\* GarbageCollectPartial(), whatever initialized() is: the function does not
\* look at it.
DoGarbageCollectPartialAnyTime ==
    /\ Explored
    /\ last_transaction_id < MaxTid
    /\ \E r0 \in {GarbageCollectPartial(Machine(NoFault, "crash"))} :
       \E c \in Cases(r0) :
       \E r \in {IF c = Undisturbed THEN r0
                 ELSE GarbageCollectPartial(Machine(c.fault, c.ub))} :
          Apply(r, "GarbageCollectPartial", "", "")

\* GarbageCollectFull(), whatever initialized() is.
DoGarbageCollectFullAnyTime ==
    /\ Explored
    /\ last_transaction_id < MaxTid
    /\ \E r0 \in {GarbageCollectFull(Machine(NoFault, "crash"))} :
       \E c \in Cases(r0) :
       \E r \in {IF c = Undisturbed THEN r0
                 ELSE GarbageCollectFull(Machine(c.fault, c.ub))} :
          Apply(r, "GarbageCollectFull", "", "")

NextUninit ==
    \/ DoInit
    \/ DoGarbageCollectPartialAnyTime
    \/ DoGarbageCollectFullAnyTime

SpecUninit == InitUninit /\ [][NextUninit]_vars

\* The call erased no sector, relocated no entry and did not use
\* last_new_sector while it was null.
GcDidNothing == last.nerase = 0 /\ last.nreloc = 0 /\ ~last.ub

\* C38: GarbageCollectPartial and GarbageCollectFull called when
\* initialized() is false (before any Init, or after an Init that failed)
\* erase no sector, relocate no entry and never read last_new_sector while
\* it is null.
C38_GcUninitialized ==
    [][(~initialized /\ last'.op \in GcCalls) => GcDidNothing']_vars

\* C38, for a store whose sector table is empty (no Init was called since
\* construction, or every Init failed its preconditions): a garbage
\* collection returns OK, erases no sector, relocates no entry, does not use
\* last_new_sector and leaves the flash and the store as they are.  Once a
\* failed Init has filled the sector table, GarbageCollectFull advances and
\* dereferences last_new_sector whenever it is null.
C38_GcOnEmptySectorTable ==
    [][/\ (~initialized /\ DOMAIN sectors = {} /\ last'.op \in GcCalls)
            => /\ GcDidNothing'
               /\ last'.status = "OK"
               /\ UNCHANGED <<flash, sectors, key_descriptors, last_new_sector,
                              last_transaction_id, initialized>>
       /\ (/\ ~initialized /\ DOMAIN sectors # {}
           /\ last_new_sector = NullSector
           /\ last'.op = "GarbageCollectFull")
            => last'.ub]_vars

\* A garbage collection was called after an Init that failed its
\* preconditions, over flash that holds entries.
C38_Witness ==
    /\ last.op \in GcCalls
    /\ init_called /\ ~initialized
    /\ DOMAIN sectors = {}
    /\ \E c \in DOMAIN flash : flash[c] # ErasedCell

-----------------------------------------------------------------------------
(* The value length in the header, on partitions whose sectors hold values *)
(* longer than the 16-bit field can tell.                                  *)

\* A sector of 96 bytes, and a sector that holds an entry of a one-byte key
\* and 65536 value bytes.
ValuePartitions ==
    {[sector_count |-> 2, sector_size_bytes |-> 96, alignment_bytes |-> 16],
     [sector_count |-> 2, sector_size_bytes |-> 65584, alignment_bytes |-> 16]}

\* Values of 1, 65534, 65535, 65536 and 65600 bytes.
ValueValues == {"x", "E", "F", "G", "H"}

\* The working buffer holds a sector; entries are verified after the write,
\* or not.
ValueOptions ==
    {[DefaultOptions EXCEPT !.working_buffer_bytes = 65584, !.verify_on_write = v] :
        v \in BOOLEAN}

\* Bound: Put is offered until this many transaction ids are consumed.
MaxValueTid == 2

InitValue ==
    /\ partition \in ValuePartitions
    /\ flash = [c \in 0 .. (NumCells - 1) |-> ErasedCell]
    /\ sectors = <<>>
    /\ key_descriptors = <<>>
    /\ last_new_sector = NullSector
    /\ last_transaction_id = 0
    /\ initialized = FALSE
    /\ init_called = FALSE
    /\ options \in ValueOptions
    /\ last = NoCall
    /\ expect = [k \in AllKeys |-> {Absent}]
    /\ hist = [faults |-> 0, after |-> 0, budget |-> 0, clean |-> TRUE,
               torn |-> FALSE]
    /\ encoder = NoEncoder

NextValue ==
    \/ DoInit
    \/ \E value \in ValueValues :
          last_transaction_id < MaxValueTid /\ DoPut("a", value)
    \/ DoGet("a")

SpecValue == InitValue /\ [][NextValue]_vars

\* The headers in flash that Put wrote for a value.
ValueHeaders == {e \in HeadersInFlash : e.val # ""}

\* The state of the descriptor of the key of the last call.
StateOfLastKey ==
    {key_descriptors[i].state :
        i \in {j \in 1 .. Len(key_descriptors) :
                 key_descriptors[j].hash = Hash(last.key)}}

PutReturnedOk == last.op = "Put" /\ last.status = "OK"

\* C39: for every value that Put accepts, the 16-bit value_size_bytes
\* written in the header equals the value's length and is never the
\* tombstone sentinel 0xFFFF, so a Put that returns OK leaves the key's
\* descriptor in state Valid, never Deleted.
C39_ValueLengthEncoding ==
    /\ \A e \in ValueHeaders :
          /\ e.value_size_bytes = ValueLength(e.val)
          /\ e.value_size_bytes # kDeletedValueLength
    /\ PutReturnedOk => StateOfLastKey = {"kValid"}

\* C39, as the code encodes the length: the header carries the value's
\* length modulo 2^16, which is the length itself and no sentinel for every
\* value shorter than 65535 bytes; a Put that returns OK leaves the
\* descriptor Valid unless the length modulo 2^16 is 0xFFFF, and then leaves
\* it Deleted.
C39_ValueLengthModulo ==
    /\ \A e \in ValueHeaders :
          /\ e.value_size_bytes = ValueLength(e.val) % 65536
          /\ ValueLength(e.val) < kDeletedValueLength
                => /\ e.value_size_bytes = ValueLength(e.val)
                   /\ e.value_size_bytes # kDeletedValueLength
    /\ PutReturnedOk =>
          StateOfLastKey =
             IF ValueLength(last.value) % 65536 = kDeletedValueLength
             THEN {"kDeleted"} ELSE {"kValid"}

\* A Put of a value of 65535 bytes returned OK and the key's descriptor is
\* Deleted.
C39_Witness ==
    /\ PutReturnedOk
    /\ ValueLength(last.value) = kDeletedValueLength
    /\ StateOfLastKey = {"kDeleted"}

=============================================================================
